---- MODULE Spec2Model ----
(***************************************************************************)
(* Voxis: text-to-speech + outbound call placement with two telephony      *)
(* adapters (Twilio = primary, Exotel = secondary), a simulated mode and   *)
(* status lookup routed by call-identifier prefix.                         *)
(*                                                                         *)
(* Strings are sequences of one-character strings, so that prefix tests,   *)
(* split('_') and parseInt are computed as the code computes them.         *)
(* An optional (possibly undefined) value v is <<v>>; undefined is <<>>.   *)
(* Times are milliseconds.                                                 *)
(***************************************************************************)
EXTENDS Integers, Sequences, FiniteSets, TLC

(* ------------------------------ bounds -------------------------------- *)
\* granularity of the modelled clock, in ms
UnitMs == 500
\* the clock stops advancing here (past the last threshold, 15000 ms)
MaxTime == 16000
\* requests that create something (a call, an audio file) arrive up to here
MaxPlaceTime == 500
\* number of placement requests in one run
MaxCalls == 1
\* a direct synthesis call is made while the audio directory can take its
\* two files (the provider's and the stub) without holding more than this
MaxFiles == 3
\* number of direct synthesis calls in one run
MaxSpeech == 2
\* number of cleanup sweeps that may run at the same time
MaxSweeps == 2

(* --------------------------- string helpers --------------------------- *)
None == <<>>
Some(v) == <<v>>
IsSome(o) == o # <<>>
Val(o) == o[1]

DigitChars == <<"0", "1", "2", "3", "4", "5", "6", "7", "8", "9">>
IsDigit(c) == \E i \in 1..10 : DigitChars[i] = c
DigitVal(c) == (CHOOSE i \in 1..10 : DigitChars[i] = c) - 1

\* String.prototype.startsWith
StartsWith(s, p) == Len(s) >= Len(p) /\ SubSeq(s, 1, Len(p)) = p

\* the decimal rendering of a non-negative integer in a template string
RECURSIVE ToDigits(_)
ToDigits(n) == IF n < 10 THEN <<DigitChars[n + 1]>>
               ELSE ToDigits(n \div 10) \o <<DigitChars[(n % 10) + 1]>>

\* String.prototype.split(sep) for a one-character separator
RECURSIVE SplitFrom(_, _, _)
SplitFrom(s, sep, cur) ==
    IF s = <<>> THEN <<cur>>
    ELSE IF Head(s) = sep THEN <<cur>> \o SplitFrom(Tail(s), sep, <<>>)
    ELSE SplitFrom(Tail(s), sep, Append(cur, Head(s)))
Split(s, sep) == SplitFrom(s, sep, <<>>)

\* segs[i] with JavaScript's 0-based index; undefined past the end
Segment(segs, i) == IF i + 1 <= Len(segs) THEN Some(segs[i + 1]) ELSE None

\* the value of the leading run of digits of s
RECURSIVE DigitsValue(_, _)
DigitsValue(s, acc) ==
    IF s = <<>> \/ ~IsDigit(Head(s)) THEN acc
    ELSE DigitsValue(Tail(s), acc * 10 + DigitVal(Head(s)))

\* parseInt(x): optional sign, then the leading digits; NaN (None) when
\* x is undefined or does not start with a digit
ParseInt(o) ==
    IF ~IsSome(o) THEN None
    ELSE LET s == Val(o)
             neg == s # <<>> /\ Head(s) = "-"
             body == IF s # <<>> /\ Head(s) \in {"-", "+"} THEN Tail(s) ELSE s
         IN IF body = <<>> \/ ~IsDigit(Head(body)) THEN None
            ELSE Some(IF neg THEN 0 - DigitsValue(body, 0) ELSE DigitsValue(body, 0))

\* Math.floor(a / b) for b > 0
Floor(a, b) == a \div b

\* string.replace(/\D/g, '')
RECURSIVE StripNonDigits(_)
StripNonDigits(s) ==
    IF s = <<>> THEN <<>>
    ELSE IF IsDigit(Head(s)) THEN <<Head(s)>> \o StripNonDigits(Tail(s))
    ELSE StripNonDigits(Tail(s))

(* ------------------------- identifier literals ------------------------ *)
SimPrefix == <<"s", "i", "m", "_">>
SimTwilioPrefix == <<"s", "i", "m", "_", "t", "w", "i", "l", "i", "o", "_">>
CAPrefix == <<"C", "A">>
AudioUrlPrefix == <<"/", "a", "u", "d", "i", "o", "/">>
MockTtsPrefix == <<"m", "o", "c", "k", "_", "t", "t", "s", "_">>
TtsPrefix == <<"t", "t", "s", "_">>
Mp3Suffix == <<".", "m", "p", "3">>

\* Math.random().toString(36).substr(2, 9): up to nine characters of [0-9a-z]
RandomParts == { <<"4", "k">> }
\* uuidv4(): fresh on every call; the n-th one drawn is Uuids[n]
Uuids == << <<"u", "1">>, <<"u", "2">>, <<"u", "3">>, <<"u", "4">>,
           <<"u", "5">>, <<"u", "6">> >>
\* call SIDs the primary provider assigns: 'CA' followed by hex digits
TwilioSids == { <<"C", "A", "1", "f">> }
\* call SIDs the secondary provider assigns: lower-case hex strings
ExotelSids == { <<"b", "7", "c">> }

(* ------------------------------ inputs -------------------------------- *)
\* destination numbers a client may send ('' is the missing field)
ToNumbers == { <<>>,
               <<"9", "8", "7", "6", "5", "4", "3", "2", "1", "0">>,
               <<"1", "2", "3">> }
\* audio URLs a client may send to POST /api/call/place
AudioUrls == { <<>>, <<"/", "a", "u", "d", "i", "o", "/", "a">> }
\* texts a client may send to POST /api/call/complete
Texts == { <<>>, <<"H", "i">> }
\* voice ids a client may send
VoiceIds == { <<>>,
              <<"m", "o", "c", "k", "-", "v", "o", "i", "c", "e", "-", "1">> }
\* identifiers a client may put in GET /api/call/status/:callId on its own
ProbeIds == { SimTwilioPrefix \o <<"0", "_", "x">>,
              SimTwilioPrefix \o <<"x", "_", "y">>,
              <<"a", "b", "c">>,
              <<"x", "_", "0">> }

\* what the primary provider's calls.create can do
TwilioOutcomes == { "ok", "auth_failure", "invalid_number", "network_error" }
\* what the secondary provider's connect request can do
ExotelOutcomes == { "ok", "auth_failure", "network_error" }
\* the body of a successful connect response: {Call: {Sid, Status}}, {} or null
ExotelBodies == { "call", "no_call", "null" }
\* what a provider's call lookup can do
FetchOutcomes == { "ok", "not_found" }
\* what the TTS provider's request can do
TtsOutcomes == { "ok", "quota", "network_error" }
\* no request is made, so there is no outcome
NoRequest == { "none" }

(* ------------------- primary adapter (TwilioService) ------------------ *)
TwilioRingingAfter == 2000
TwilioInProgressAfter == 6000
TwilioCompletedAfter == 8000

\* a TwilioCallResponse / CallResponse; absent fields are None
CallResult(success, call_id, status, simulation, error) ==
    [success |-> success, call_id |-> call_id, status |-> status,
     simulation |-> simulation, error |-> error]

\* TwilioService.simulateCall; the narration it starts (startCallSimulation)
\* writes log lines only and is read by no operation
Twilio_simulateCall(request, nowMs, rnd) ==
    CallResult(TRUE, Some(SimTwilioPrefix \o ToDigits(nowMs) \o <<"_">> \o rnd),
               None, None, None)

\* TwilioService.simulateCallWithText
Twilio_simulateCallWithText(text, to_number, nowMs, rnd) ==
    CallResult(TRUE, Some(SimPrefix \o ToDigits(nowMs) \o <<"_">> \o rnd),
               None, None, None)

\* placeCall whose catch block returns the provider's error as a failed
\* result
Twilio_placeCall_ReportsFailure(client, request, outcome, sid, nowMs, rnd) ==
    IF ~client
    THEN [result |-> Twilio_simulateCall(request, nowMs, rnd),
          path |-> "simulated", why |-> "unconfigured", sent |-> FALSE, threw |-> FALSE]
    ELSE IF outcome = "ok"
    THEN [result |-> CallResult(TRUE, Some(sid), None, None, None),
          path |-> "real", why |-> "ok", sent |-> TRUE, threw |-> FALSE]
    ELSE [result |-> CallResult(FALSE, None, None, None, Some(outcome)),
          path |-> "real", why |-> "raised", sent |-> TRUE, threw |-> FALSE]

\* TwilioService.placeCall: the result, the path taken, whether a provider
\* request was made and whether the call ended in an exception
Twilio_placeCall(client, request, outcome, sid, nowMs, rnd) ==
    IF ~client
    THEN [result |-> Twilio_simulateCall(request, nowMs, rnd),
          path |-> "simulated", why |-> "unconfigured", sent |-> FALSE, threw |-> FALSE]
    ELSE IF outcome = "ok"
    THEN [result |-> CallResult(TRUE, Some(sid), None, None, None),
          path |-> "real", why |-> "ok", sent |-> TRUE, threw |-> FALSE]
    ELSE [result |-> Twilio_simulateCall(request, nowMs, rnd),
          path |-> "simulated", why |-> "raised", sent |-> TRUE, threw |-> FALSE]

\* placeCallWithText whose catch block reports the failure instead of
\* falling back to the simulation
Twilio_placeCallWithText_NoFallback(client, text, to_number, outcome, sid, nowMs, rnd) ==
    IF ~client
    THEN [result |-> Twilio_simulateCallWithText(text, to_number, nowMs, rnd),
          path |-> "simulated", why |-> "unconfigured", sent |-> FALSE, threw |-> FALSE]
    ELSE IF outcome = "ok"
    THEN [result |-> CallResult(TRUE, Some(sid), None, None, None),
          path |-> "real", why |-> "ok", sent |-> TRUE, threw |-> FALSE]
    ELSE [result |-> CallResult(FALSE, None, None, None, Some(outcome)),
          path |-> "real", why |-> "raised", sent |-> TRUE, threw |-> FALSE]

\* TwilioService.placeCallWithText
Twilio_placeCallWithText(client, text, to_number, outcome, sid, nowMs, rnd) ==
    IF ~client
    THEN [result |-> Twilio_simulateCallWithText(text, to_number, nowMs, rnd),
          path |-> "simulated", why |-> "unconfigured", sent |-> FALSE, threw |-> FALSE]
    ELSE IF outcome = "ok"
    THEN [result |-> CallResult(TRUE, Some(sid), None, None, None),
          path |-> "real", why |-> "ok", sent |-> TRUE, threw |-> FALSE]
    ELSE [result |-> Twilio_simulateCallWithText(text, to_number, nowMs, rnd),
          path |-> "simulated", why |-> "raised", sent |-> TRUE, threw |-> FALSE]

\* a TwilioCallStatus / CallStatus
CallStatus(call_id, status, duration, start_time, end_time) ==
    [call_id |-> call_id, status |-> status, duration |-> duration,
     start_time |-> start_time, end_time |-> end_time]

\* getSimulatedCallStatus with the labels of the two middle stages swapped
Twilio_getSimulatedCallStatus_Swapped(callId, nowMs) ==
    IF ~StartsWith(callId, SimTwilioPrefix) THEN None
    ELSE LET timestamp == ParseInt(Segment(Split(callId, "_"), 2))
             elapsed == IF IsSome(timestamp) THEN Some(nowMs - Val(timestamp)) ELSE None
             gt(ms) == IsSome(elapsed) /\ Val(elapsed) > ms
             status == IF gt(TwilioCompletedAfter) THEN "completed"
                       ELSE IF gt(TwilioInProgressAfter) THEN "ringing"
                       ELSE IF gt(TwilioRingingAfter) THEN "in-progress"
                       ELSE "queued"
         IN Some(CallStatus(callId, status,
                            IF status = "completed"
                            THEN Some(Floor(Val(elapsed), 1000)) ELSE None,
                            None, None))

\* getSimulatedCallStatus that reports the duration in milliseconds
Twilio_getSimulatedCallStatus_Millis(callId, nowMs) ==
    IF ~StartsWith(callId, SimTwilioPrefix) THEN None
    ELSE LET timestamp == ParseInt(Segment(Split(callId, "_"), 2))
             elapsed == IF IsSome(timestamp) THEN Some(nowMs - Val(timestamp)) ELSE None
             gt(ms) == IsSome(elapsed) /\ Val(elapsed) > ms
             status == IF gt(TwilioCompletedAfter) THEN "completed"
                       ELSE IF gt(TwilioInProgressAfter) THEN "in-progress"
                       ELSE IF gt(TwilioRingingAfter) THEN "ringing"
                       ELSE "queued"
         IN Some(CallStatus(callId, status,
                            IF status = "completed" THEN Some(Val(elapsed)) ELSE None,
                            None, None))

\* getSimulatedCallStatus whose comparisons take the threshold instant itself
Twilio_getSimulatedCallStatus_Inclusive(callId, nowMs) ==
    IF ~StartsWith(callId, SimTwilioPrefix) THEN None
    ELSE LET timestamp == ParseInt(Segment(Split(callId, "_"), 2))
             elapsed == IF IsSome(timestamp) THEN Some(nowMs - Val(timestamp)) ELSE None
             gt(ms) == IsSome(elapsed) /\ Val(elapsed) >= ms
             status == IF gt(TwilioCompletedAfter) THEN "completed"
                       ELSE IF gt(TwilioInProgressAfter) THEN "in-progress"
                       ELSE IF gt(TwilioRingingAfter) THEN "ringing"
                       ELSE "queued"
         IN Some(CallStatus(callId, status,
                            IF status = "completed"
                            THEN Some(Floor(Val(elapsed), 1000)) ELSE None,
                            None, None))

\* TwilioService.getSimulatedCallStatus; every comparison with NaN is false
Twilio_getSimulatedCallStatus(callId, nowMs) ==
    IF ~StartsWith(callId, SimTwilioPrefix) THEN None
    ELSE LET timestamp == ParseInt(Segment(Split(callId, "_"), 2))
             elapsed == IF IsSome(timestamp) THEN Some(nowMs - Val(timestamp)) ELSE None
             gt(ms) == IsSome(elapsed) /\ Val(elapsed) > ms
             status == IF gt(TwilioCompletedAfter) THEN "completed"
                       ELSE IF gt(TwilioInProgressAfter) THEN "in-progress"
                       ELSE IF gt(TwilioRingingAfter) THEN "ringing"
                       ELSE "queued"
         IN Some(CallStatus(callId, status,
                            IF status = "completed"
                            THEN Some(Floor(Val(elapsed), 1000)) ELSE None,
                            None, None))

\* the statuses a provider reports for a call it knows
ProviderStatuses == { "in-progress" }

\* TwilioService.getCallStatus
Twilio_getCallStatus(client, callId, fetch, providerStatus, nowMs) ==
    IF ~client THEN Twilio_getSimulatedCallStatus(callId, nowMs)
    ELSE IF fetch = "ok"
    THEN Some(CallStatus(callId, providerStatus, None, None, None))
    ELSE None

(* ------------------ secondary adapter (ExotelService) ----------------- *)
ExotelRingingAfter == 1000
ExotelAnsweredAfter == 3000
ExotelInProgressAfter == 5000
ExotelCompletedAfter == 15000

\* ExotelService.simulateCall; its four timers write log lines only
Exotel_simulateCall(request, nowMs, rnd) ==
    CallResult(TRUE, Some(SimPrefix \o ToDigits(nowMs) \o <<"_">> \o rnd),
               Some("initiated"), Some(TRUE), None)

\* ExotelService.isValidPhoneNumber
Exotel_isValidPhoneNumber(phoneNumber) ==
    LET cleaned == StripNonDigits(phoneNumber)
    IN Len(cleaned) >= 10 /\ Len(cleaned) <= 15

\* ExotelService.formatPhoneNumber
Exotel_formatPhoneNumber(phoneNumber) ==
    LET cleaned == StripNonDigits(phoneNumber)
    IN <<"+">> \o (IF Len(cleaned) = 10 THEN <<"9", "1">> \o cleaned ELSE cleaned)

\* placeCall that reports the invalid number instead of simulating
Exotel_placeCall_RejectsInvalid(creds, request, outcome, body, sid, nowMs, rnd) ==
    IF ~creds
    THEN [result |-> Exotel_simulateCall(request, nowMs, rnd),
          path |-> "simulated", why |-> "unconfigured", sent |-> FALSE, threw |-> FALSE]
    ELSE IF ~Exotel_isValidPhoneNumber(request.to_number)
    THEN [result |-> CallResult(FALSE, None, None, None, Some("Invalid phone number format")),
          path |-> "failed", why |-> "invalid_number", sent |-> FALSE, threw |-> FALSE]
    ELSE IF outcome = "ok" /\ body = "call"
    THEN [result |-> CallResult(TRUE, Some(sid), Some("queued"), None, None),
          path |-> "real", why |-> "ok", sent |-> TRUE, threw |-> FALSE]
    ELSE IF outcome = "ok" /\ body = "no_call"
    THEN [result |-> CallResult(TRUE, None, None, None, None),
          path |-> "real", why |-> "ok", sent |-> TRUE, threw |-> FALSE]
    ELSE [result |-> Exotel_simulateCall(request, nowMs, rnd),
          path |-> "simulated", why |-> "raised", sent |-> TRUE, threw |-> FALSE]

\* ExotelService.placeCall
Exotel_placeCall(creds, request, outcome, body, sid, nowMs, rnd) ==
    IF ~creds
    THEN [result |-> Exotel_simulateCall(request, nowMs, rnd),
          path |-> "simulated", why |-> "unconfigured", sent |-> FALSE, threw |-> FALSE]
    ELSE IF ~Exotel_isValidPhoneNumber(request.to_number)
    THEN [result |-> Exotel_simulateCall(request, nowMs, rnd),
          path |-> "simulated", why |-> "invalid_number", sent |-> FALSE, threw |-> FALSE]
    ELSE IF outcome = "ok" /\ body = "call"
    THEN [result |-> CallResult(TRUE, Some(sid), Some("queued"), None, None),
          path |-> "real", why |-> "ok", sent |-> TRUE, threw |-> FALSE]
    ELSE IF outcome = "ok" /\ body = "no_call"
    THEN [result |-> CallResult(TRUE, None, None, None, None),
          path |-> "real", why |-> "ok", sent |-> TRUE, threw |-> FALSE]
    ELSE [result |-> Exotel_simulateCall(request, nowMs, rnd),
          path |-> "simulated", why |-> "raised", sent |-> TRUE, threw |-> FALSE]

\* new Date(ms).toISOString(): the instant it denotes
ToISOString(ms) == [epochMs |-> ms]

\* getSimulatedCallStatus without the 'answered' stage
Exotel_getSimulatedCallStatus_NoAnswered(callId, nowMs) ==
    LET created == ParseInt(Segment(Split(callId, "_"), 1))
        elapsed == IF IsSome(created) THEN Some(nowMs - Val(created)) ELSE None
        gt(ms) == IsSome(elapsed) /\ Val(elapsed) > ms
        status == IF gt(ExotelCompletedAfter) THEN "completed"
                  ELSE IF gt(ExotelInProgressAfter) THEN "in-progress"
                  ELSE IF gt(ExotelRingingAfter) THEN "ringing"
                  ELSE "initiated"
    IN IF ~IsSome(created) THEN [threw |-> TRUE, value |-> None]
       ELSE [threw |-> FALSE,
             value |-> Some(CallStatus(callId, status,
                 IF gt(ExotelCompletedAfter)
                 THEN Some(Floor(Val(elapsed) - ExotelInProgressAfter, 1000)) ELSE None,
                 Some(ToISOString(Val(created) + ExotelInProgressAfter)),
                 IF gt(ExotelCompletedAfter)
                 THEN Some(ToISOString(Val(created) + ExotelCompletedAfter)) ELSE None))]

\* getSimulatedCallStatus that takes the time of the query as the end time
Exotel_getSimulatedCallStatus_EndNow(callId, nowMs) ==
    LET created == ParseInt(Segment(Split(callId, "_"), 1))
        elapsed == IF IsSome(created) THEN Some(nowMs - Val(created)) ELSE None
        gt(ms) == IsSome(elapsed) /\ Val(elapsed) > ms
        status == IF gt(ExotelCompletedAfter) THEN "completed"
                  ELSE IF gt(ExotelInProgressAfter) THEN "in-progress"
                  ELSE IF gt(ExotelAnsweredAfter) THEN "answered"
                  ELSE IF gt(ExotelRingingAfter) THEN "ringing"
                  ELSE "initiated"
    IN IF ~IsSome(created) THEN [threw |-> TRUE, value |-> None]
       ELSE [threw |-> FALSE,
             value |-> Some(CallStatus(callId, status,
                 IF gt(ExotelCompletedAfter)
                 THEN Some(Floor(Val(elapsed) - ExotelInProgressAfter, 1000)) ELSE None,
                 Some(ToISOString(Val(created) + ExotelInProgressAfter)),
                 IF gt(ExotelCompletedAfter)
                 THEN Some(ToISOString(nowMs)) ELSE None))]

\* getSimulatedCallStatus that reports the whole elapsed time as duration
Exotel_getSimulatedCallStatus_FullElapsed(callId, nowMs) ==
    LET created == ParseInt(Segment(Split(callId, "_"), 1))
        elapsed == IF IsSome(created) THEN Some(nowMs - Val(created)) ELSE None
        gt(ms) == IsSome(elapsed) /\ Val(elapsed) > ms
        status == IF gt(ExotelCompletedAfter) THEN "completed"
                  ELSE IF gt(ExotelInProgressAfter) THEN "in-progress"
                  ELSE IF gt(ExotelAnsweredAfter) THEN "answered"
                  ELSE IF gt(ExotelRingingAfter) THEN "ringing"
                  ELSE "initiated"
    IN IF ~IsSome(created) THEN [threw |-> TRUE, value |-> None]
       ELSE [threw |-> FALSE,
             value |-> Some(CallStatus(callId, status,
                 IF gt(ExotelCompletedAfter)
                 THEN Some(Floor(Val(elapsed), 1000)) ELSE None,
                 Some(ToISOString(Val(created) + ExotelInProgressAfter)),
                 IF gt(ExotelCompletedAfter)
                 THEN Some(ToISOString(Val(created) + ExotelCompletedAfter)) ELSE None))]

\* ExotelService.getSimulatedCallStatus; new Date(NaN).toISOString() throws
Exotel_getSimulatedCallStatus(callId, nowMs) ==
    LET created == ParseInt(Segment(Split(callId, "_"), 1))
        elapsed == IF IsSome(created) THEN Some(nowMs - Val(created)) ELSE None
        gt(ms) == IsSome(elapsed) /\ Val(elapsed) > ms
        status == IF gt(ExotelCompletedAfter) THEN "completed"
                  ELSE IF gt(ExotelInProgressAfter) THEN "in-progress"
                  ELSE IF gt(ExotelAnsweredAfter) THEN "answered"
                  ELSE IF gt(ExotelRingingAfter) THEN "ringing"
                  ELSE "initiated"
    IN IF ~IsSome(created) THEN [threw |-> TRUE, value |-> None]
       ELSE [threw |-> FALSE,
             value |-> Some(CallStatus(callId, status,
                 IF gt(ExotelCompletedAfter)
                 THEN Some(Floor(Val(elapsed) - ExotelInProgressAfter, 1000)) ELSE None,
                 Some(ToISOString(Val(created) + ExotelInProgressAfter)),
                 IF gt(ExotelCompletedAfter)
                 THEN Some(ToISOString(Val(created) + ExotelCompletedAfter)) ELSE None))]

\* ExotelService.getCallStatus
Exotel_getCallStatus(creds, callId, fetch, providerStatus, nowMs) ==
    IF ~creds
    THEN LET r == Exotel_getSimulatedCallStatus(callId, nowMs)
         IN IF r.threw THEN None ELSE r.value
    ELSE IF fetch = "ok"
    THEN Some(CallStatus(callId, providerStatus, None, None, None))
    ELSE None

(* ---------------- speech synthesis (ElevenLabsService) ---------------- *)
\* a TTSResponse
TTSResponse(success, audio_url, filename, error) ==
    [success |-> success, audio_url |-> audio_url, filename |-> filename,
     error |-> error]

\* the directory after writing files: a file written under an existing
\* name replaces it
StoreFiles(dir, files) ==
    {f \in dir : \A g \in files : g.name # f.name} \cup files

\* fs.writeFile(filepath, data) that fails: it leaves no file (the open
\* failed) or an incomplete one (the write failed after the open)
LeftBehind(filename, leftover, nowMs) ==
    IF leftover THEN {[name |-> filename, mtime |-> nowMs]} ELSE {}

\* generateMockAudio that names the stub file by the time alone
ElevenLabs_generateMockAudio_NoUuid(request, writeOk, leftover, uuid, nowMs) ==
    LET filename == MockTtsPrefix \o ToDigits(nowMs) \o Mp3Suffix
    IN IF writeOk
       THEN [response |-> TTSResponse(TRUE, Some(AudioUrlPrefix \o filename),
                                      Some(filename), None),
             written |-> {[name |-> filename, mtime |-> nowMs]},
             partial |-> {}, threw |-> FALSE]
       ELSE [response |-> TTSResponse(FALSE, None, None, Some("Failed to generate mock audio")),
             written |-> {},
             partial |-> LeftBehind(filename, leftover, nowMs), threw |-> FALSE]

\* ElevenLabsService.generateMockAudio: the response, the file written and
\* the incomplete file a failed write leaves
ElevenLabs_generateMockAudio(request, writeOk, leftover, uuid, nowMs) ==
    LET filename == MockTtsPrefix \o uuid \o <<"_">> \o ToDigits(nowMs) \o Mp3Suffix
    IN IF writeOk
       THEN [response |-> TTSResponse(TRUE, Some(AudioUrlPrefix \o filename),
                                      Some(filename), None),
             written |-> {[name |-> filename, mtime |-> nowMs]},
             partial |-> {}, threw |-> FALSE]
       ELSE [response |-> TTSResponse(FALSE, None, None, Some("Failed to generate mock audio")),
             written |-> {},
             partial |-> LeftBehind(filename, leftover, nowMs), threw |-> FALSE]

\* generateSpeech whose catch block reports the provider's failure
ElevenLabs_generateSpeech_NoFallback(apiKey, request, outcome, writeOk, stubWriteOk, leftover, uuid, stubUuid, nowMs) ==
    LET filename == TtsPrefix \o uuid \o <<"_">> \o ToDigits(nowMs) \o Mp3Suffix
        stub == ElevenLabs_generateMockAudio(request, stubWriteOk, leftover, stubUuid, nowMs)
    IN IF ~apiKey THEN stub
       ELSE IF outcome = "ok" /\ writeOk
       THEN [response |-> TTSResponse(TRUE, Some(AudioUrlPrefix \o filename),
                                      Some(filename), None),
             written |-> {[name |-> filename, mtime |-> nowMs]},
             partial |-> {}, threw |-> FALSE]
       ELSE [response |-> TTSResponse(FALSE, None, None, Some("Failed to generate speech")),
             written |-> {},
             partial |-> IF outcome = "ok" THEN LeftBehind(filename, leftover, nowMs) ELSE {},
             threw |-> FALSE]

\* ElevenLabsService.generateSpeech; uuid and stubUuid are the uuidv4() of
\* the provider file name and of the stub file name
ElevenLabs_generateSpeech(apiKey, request, outcome, writeOk, stubWriteOk, leftover, uuid, stubUuid, nowMs) ==
    LET filename == TtsPrefix \o uuid \o <<"_">> \o ToDigits(nowMs) \o Mp3Suffix
        stub == ElevenLabs_generateMockAudio(request, stubWriteOk, leftover, stubUuid, nowMs)
    IN IF ~apiKey THEN stub
       ELSE IF outcome = "ok" /\ writeOk
       THEN [response |-> TTSResponse(TRUE, Some(AudioUrlPrefix \o filename),
                                      Some(filename), None),
             written |-> {[name |-> filename, mtime |-> nowMs]},
             partial |-> {}, threw |-> FALSE]
       ELSE IF outcome = "ok"
       THEN [stub EXCEPT !.partial = @ \cup LeftBehind(filename, leftover, nowMs)]
       ELSE stub

(* ------------------------------- state -------------------------------- *)
VARIABLES
    env,        \* which credentials the process was started with
    now,        \* Date.now()
    audioDir,   \* the files of the audio directory
    issued,     \* the identifier the latest placement returned, and its origin
    calls,      \* number of placement requests made so far
    polled,     \* the latest status derived from elapsed time for issued.id
    resp,       \* what the operation of this step returned
    seen,       \* the first answer a client got to a status query at this instant
    sweeps,     \* the cleanup sweeps in progress, each at its own await
    narrations  \* the interval timers started by TwilioService.startCallSimulation

vars == <<env, now, audioDir, issued, calls, polled, resp, seen, sweeps, narrations>>

\* no sweep has started; 'procs' holds the cleanupOldFiles calls in the
\* order in which they started, 'expired' will hold the files that were older than
\* the threshold when the first sweep started, 'pending' the names of the
\* files written by a generateSpeech call that has not returned yet
NoSweeps ==
    [procs |-> <<>>, expired |-> {}, threshold |-> None,
     pending |-> {}]

NoCall == [id |-> None, producer |-> "none", path |-> "none", via |-> "none", at |-> 0]
Idle == [op |-> "none"]

Init ==
    /\ env \in [twilioClient : BOOLEAN, exotelCreds : BOOLEAN, elevenLabsKey : BOOLEAN]
    /\ now = 0
    /\ audioDir = {}
    /\ issued = NoCall
    /\ calls = 0
    /\ polled = None
    /\ resp = Idle
    /\ seen = None
    /\ sweeps = NoSweeps
    /\ narrations = <<>>

\* the clock advances; the response of the previous step has been delivered
Tick ==
    /\ now + UnitMs <= MaxTime
    /\ now' = now + UnitMs
    /\ resp' = Idle
    /\ seen' = None
    /\ UNCHANGED <<narrations, sweeps, env, audioDir, issued, calls, polled>>

Issue(placed, producer, via) ==
    [id |-> placed.result.call_id, producer |-> producer, path |-> placed.path,
     via |-> via, at |-> now]

CanPlace == now <= MaxPlaceTime /\ calls < MaxCalls

\* the outcomes of a provider request, when one is made
TwilioChoices == IF env.twilioClient THEN TwilioOutcomes ELSE NoRequest
ExotelChoices == IF env.exotelCreds THEN ExotelOutcomes ELSE NoRequest
ExotelBodyChoices(outcome) == IF outcome = "ok" THEN ExotelBodies ELSE NoRequest
TtsChoices == IF env.elevenLabsKey THEN TtsOutcomes ELSE NoRequest

\* setInterval(..., 2000) of startCallSimulation
NarrationEveryMs == 2000

\* const statuses = ['queued', 'ringing', 'in-progress', 'completed']
NarrationStatuses == <<"queued", "ringing", "in-progress", "completed">>

\* startCallSimulation(callId): the timer is set, nothing is logged yet
Twilio_startCallSimulation(callId, nowMs) ==
    [callId |-> callId, currentStatus |-> 0, log |-> <<>>, cleared |-> FALSE,
     due |-> nowMs + NarrationEveryMs]

\* the timers after a placement by 'method': simulateCall calls
\* startCallSimulation, simulateCallWithText does not
Narrate(timers, method, placed, nowMs) ==
    IF method = "placeCall" /\ placed.path = "simulated"
    THEN Append(timers, Twilio_startCallSimulation(Val(placed.result.call_id), nowMs))
    ELSE timers

\* the callback of the interval timer: one log line, or clearInterval
Narration_onInterval(n) ==
    IF n.currentStatus < Len(NarrationStatuses)
    THEN [n EXCEPT !.log = Append(@, NarrationStatuses[n.currentStatus + 1]),
                   !.currentStatus = @ + 1,
                   !.due = @ + NarrationEveryMs]
    ELSE [n EXCEPT !.cleared = TRUE]

\* a direct call of twilioService.placeCall
TwilioPlaceCall ==
    /\ CanPlace
    /\ \E to \in ToNumbers \ {<<>>}, audio \in AudioUrls \ {<<>>},
          outcome \in TwilioChoices, sid \in TwilioSids, rnd \in RandomParts :
         LET placed == Twilio_placeCall(env.twilioClient,
                           [to_number |-> to, audio_url |-> audio],
                           outcome, sid, now, rnd)
         IN /\ resp' = [op |-> "twilio.placeCall", outcome |-> outcome, placed |-> placed]
            /\ issued' = Issue(placed, "twilio", "placeCall")
            /\ narrations' = Narrate(narrations, "placeCall", placed, now)
    /\ calls' = calls + 1
    /\ polled' = None
    /\ UNCHANGED <<sweeps, seen, env, now, audioDir>>

\* a direct call of twilioService.placeCallWithText
TwilioPlaceCallWithText ==
    /\ CanPlace
    /\ \E text \in Texts \ {<<>>}, to \in ToNumbers \ {<<>>},
          outcome \in TwilioChoices, sid \in TwilioSids, rnd \in RandomParts :
         LET placed == Twilio_placeCallWithText(env.twilioClient, text, to,
                           outcome, sid, now, rnd)
         IN /\ resp' = [op |-> "twilio.placeCallWithText", outcome |-> outcome,
                        placed |-> placed]
            /\ issued' = Issue(placed, "twilio", "placeCallWithText")
            /\ narrations' = Narrate(narrations, "placeCallWithText", placed, now)
    /\ calls' = calls + 1
    /\ polled' = None
    /\ UNCHANGED <<sweeps, seen, env, now, audioDir>>

\* a direct call of exotelService.placeCall
\* destination numbers handed to the secondary adapter: those of the
\* routes, and numbers of 9, 15 and 16 digits with and without formatting
ExotelNumbers ==
    (ToNumbers \ {<<>>})
    \cup { <<"(", "9", "8", "7", ")", " ", "6", "5", "4", "-", "3", "2", "1">>,
           <<"+", "9", "1", "9", "8", "7", "6", "5", "4", "3", "2", "1", "0", "1", "2", "3">>,
           <<"9", "1", "9", "8", "7", "6", "5", "4", "3", "2", "1", "0", "1", "2", "3", "4">> }

ExotelPlaceCall ==
    /\ CanPlace
    /\ \E to \in ExotelNumbers, audio \in AudioUrls \ {<<>>},
          outcome \in ExotelChoices, sid \in ExotelSids, rnd \in RandomParts :
       \E body \in ExotelBodyChoices(outcome) :
         LET placed == Exotel_placeCall(env.exotelCreds,
                           [to_number |-> to, audio_url |-> audio],
                           outcome, body, sid, now, rnd)
         IN /\ resp' = [op |-> "exotel.placeCall", to_number |-> to,
                        outcome |-> outcome, placed |-> placed]
            /\ issued' = Issue(placed, "exotel", "placeCall")
    /\ calls' = calls + 1
    /\ polled' = None
    /\ UNCHANGED <<narrations, sweeps, seen, env, now, audioDir>>

(* ------------------------- routes (routes/call) ------------------------ *)
\* the 'provider' field with the simulated prefix forgotten
ProviderOf_CAOnly(call_id) ==
    IF IsSome(call_id) /\ StartsWith(Val(call_id), CAPrefix) THEN "twilio"
    ELSE "exotel"

\* the 'provider' field of the POST /api/call/place response
ProviderOf(call_id) ==
    IF IsSome(call_id) /\ StartsWith(Val(call_id), CAPrefix) THEN "twilio"
    ELSE IF IsSome(call_id) /\ StartsWith(Val(call_id), SimTwilioPrefix) THEN "twilio_sim"
    ELSE "exotel"

\* the secondary adapter consulted whatever the primary returned
NeedsSecondary_Always(result) == TRUE

\* the secondary adapter is consulted by router.post('/place') only after
\* such a primary result
NeedsSecondary(result) == ~result.success /\ IsSome(result.error)

\* router.post('/place'): the response, the adapters attempted in order and
\* the adapter result the response was built from
Route_place(e, to, audio, tOutcome, tSid, xOutcome, xBody, xSid, nowMs, rnd) ==
    IF to = <<>> \/ audio = <<>>
    THEN [http |-> 400, body |-> [success |-> FALSE, error |-> "Missing required fields"],
          attempted |-> <<>>, used |-> "none", placed |-> None, primary |-> None]
    ELSE LET primary == Twilio_placeCall(e.twilioClient,
                            [to_number |-> to, audio_url |-> audio],
                            tOutcome, tSid, nowMs, rnd)
             fallback == NeedsSecondary(primary.result)
             secondary == Exotel_placeCall(e.exotelCreds,
                              [to_number |-> Exotel_formatPhoneNumber(to),
                               audio_url |-> audio],
                              xOutcome, xBody, xSid, nowMs, rnd)
             placed == IF fallback THEN secondary ELSE primary
             result == placed.result
         IN [http |-> IF result.success THEN 200 ELSE 500,
             body |-> IF result.success
                      THEN [success |-> TRUE, call_id |-> result.call_id,
                            provider |-> ProviderOf(result.call_id)]
                      ELSE [success |-> FALSE,
                            error |-> IF IsSome(result.error) THEN Val(result.error)
                                      ELSE "Failed to place call"],
             attempted |-> IF fallback THEN <<"twilio", "exotel">> ELSE <<"twilio">>,
             used |-> IF fallback THEN "exotel" ELSE "twilio",
             placed |-> Some(placed),
             primary |-> Some(primary)]

\* IsTwilioCallId with the simulated prefix forgotten
IsTwilioCallId_CAOnly(callId) == StartsWith(callId, CAPrefix)

\* the prefix test of router.get('/status/:callId')
IsTwilioCallId(callId) ==
    StartsWith(callId, CAPrefix) \/ StartsWith(callId, SimTwilioPrefix)

\* router.get('/status/:callId'): the response, the adapter consulted and
\* whether that adapter derived the status from elapsed time
\* Route_status choosing the adapter from the routing state stored at
\* placement instead of from the identifier
Route_status_StoredRoute(e, callId, fetch, providerStatus, nowMs) ==
    LET toTwilio == issued.producer = "twilio"
        status == IF toTwilio
                  THEN Twilio_getCallStatus(e.twilioClient, callId, fetch, providerStatus, nowMs)
                  ELSE Exotel_getCallStatus(e.exotelCreds, callId, fetch, providerStatus, nowMs)
    IN [http |-> IF IsSome(status) THEN 200 ELSE 404,
        body |-> IF IsSome(status)
                 THEN [success |-> TRUE, call_status |-> status]
                 ELSE [success |-> FALSE, call_status |-> None],
        routedTo |-> IF toTwilio THEN "twilio" ELSE "exotel",
        derived |-> IF toTwilio THEN ~e.twilioClient ELSE ~e.exotelCreds]

Route_status(e, callId, fetch, providerStatus, nowMs) ==
    LET toTwilio == IsTwilioCallId(callId)
        status == IF toTwilio
                  THEN Twilio_getCallStatus(e.twilioClient, callId, fetch, providerStatus, nowMs)
                  ELSE Exotel_getCallStatus(e.exotelCreds, callId, fetch, providerStatus, nowMs)
    IN [http |-> IF IsSome(status) THEN 200 ELSE 404,
        body |-> IF IsSome(status)
                 THEN [success |-> TRUE, call_status |-> status]
                 ELSE [success |-> FALSE, call_status |-> None],
        routedTo |-> IF toTwilio THEN "twilio" ELSE "exotel",
        derived |-> IF toTwilio THEN ~e.twilioClient ELSE ~e.exotelCreds]

\* String.prototype.startsWith behind optional chaining, then '|| false'
StartsWithOrFalse(o, p) == IsSome(o) /\ StartsWith(Val(o), p)

\* router.post('/complete') that copies the adapter's simulation flag
\* instead of deriving it from the identifier
Route_complete_CopiesFlag(e, text, voice, to, ttsOutcome, writeOk, stubWriteOk, leftover, uuid, stubUuid, tOutcome, tSid, nowMs, rnd) ==
    IF text = <<>> \/ voice = <<>> \/ to = <<>>
    THEN [http |-> 400, body |-> [success |-> FALSE, error |-> "Missing required fields"],
          written |-> {}, partial |-> {}, placed |-> None,
                  attempted |-> <<>>, primary |-> None,
          spoken |-> None]
    ELSE LET tts == ElevenLabs_generateSpeech(e.elevenLabsKey,
                        [text |-> text, voice_id |-> voice],
                        ttsOutcome, writeOk, stubWriteOk, leftover, uuid, stubUuid, nowMs)
             placed == Twilio_placeCallWithText(e.twilioClient, text, to,
                           tOutcome, tSid, nowMs, rnd)
             callResult == placed.result
         IN IF ~tts.response.success
            THEN [http |-> 500,
                  body |-> [success |-> FALSE, error |-> "Failed to generate speech"],
                  written |-> tts.written, partial |-> tts.partial, placed |-> None,
                  attempted |-> <<>>, primary |-> None,
                  spoken |-> Some(Len(text))]
            ELSE IF callResult.success
            THEN [http |-> 200,
                  body |-> [success |-> TRUE, call_id |-> callResult.call_id,
                            audio_url |-> tts.response.audio_url,
                            call_status |-> "initiated",
                            simulation |-> callResult.simulation = Some(TRUE)],
                  written |-> tts.written, partial |-> tts.partial, placed |-> Some(placed),
                  attempted |-> <<"twilio">>, primary |-> Some(placed),
                  spoken |-> Some(Len(text))]
            ELSE [http |-> 500,
                  body |-> [success |-> FALSE, error |-> "Failed to place call"],
                  written |-> tts.written, partial |-> tts.partial, placed |-> Some(placed),
                  attempted |-> <<"twilio">>, primary |-> Some(placed),
                  spoken |-> Some(Len(text))]

\* router.post('/complete'): the response, the files written and the
\* adapter result the response was built from
Route_complete(e, text, voice, to, ttsOutcome, writeOk, stubWriteOk, leftover, uuid, stubUuid, tOutcome, tSid, nowMs, rnd) ==
    IF text = <<>> \/ voice = <<>> \/ to = <<>>
    THEN [http |-> 400, body |-> [success |-> FALSE, error |-> "Missing required fields"],
          written |-> {}, partial |-> {}, placed |-> None,
                  attempted |-> <<>>, primary |-> None,
          spoken |-> None]
    ELSE LET tts == ElevenLabs_generateSpeech(e.elevenLabsKey,
                        [text |-> text, voice_id |-> voice],
                        ttsOutcome, writeOk, stubWriteOk, leftover, uuid, stubUuid, nowMs)
             placed == Twilio_placeCallWithText(e.twilioClient, text, to,
                           tOutcome, tSid, nowMs, rnd)
             callResult == placed.result
         IN IF ~tts.response.success
            THEN [http |-> 500,
                  body |-> [success |-> FALSE, error |-> "Failed to generate speech"],
                  written |-> tts.written, partial |-> tts.partial, placed |-> None,
                  attempted |-> <<>>, primary |-> None,
                  spoken |-> Some(Len(text))]
            ELSE IF callResult.success
            THEN [http |-> 200,
                  body |-> [success |-> TRUE, call_id |-> callResult.call_id,
                            audio_url |-> tts.response.audio_url,
                            call_status |-> "initiated",
                            simulation |-> StartsWithOrFalse(callResult.call_id, SimPrefix)],
                  written |-> tts.written, partial |-> tts.partial, placed |-> Some(placed),
                  attempted |-> <<"twilio">>, primary |-> Some(placed),
                  spoken |-> Some(Len(text))]
            ELSE [http |-> 500,
                  body |-> [success |-> FALSE, error |-> "Failed to place call"],
                  written |-> tts.written, partial |-> tts.partial, placed |-> Some(placed),
                  attempted |-> <<"twilio">>, primary |-> Some(placed),
                  spoken |-> Some(Len(text))]

\* POST /api/call/place
PostPlace ==
    /\ CanPlace
    /\ \E to \in ToNumbers, audio \in AudioUrls :
       \E tOutcome \in (IF to = <<>> \/ audio = <<>> THEN NoRequest ELSE TwilioChoices),
          tSid \in TwilioSids, rnd \in RandomParts :
       \E xOutcome \in (IF NeedsSecondary(Twilio_placeCall(env.twilioClient,
                               [to_number |-> to, audio_url |-> audio],
                               tOutcome, tSid, now, rnd).result)
                        THEN ExotelChoices ELSE NoRequest),
          xSid \in ExotelSids :
       \E xBody \in ExotelBodyChoices(xOutcome) :
         LET r == Route_place(env, to, audio, tOutcome, tSid, xOutcome, xBody, xSid, now, rnd)
         IN /\ resp' = [op |-> "POST /place", to_number |-> to, audio_url |-> audio,
                        outcome |-> tOutcome, r |-> r]
            /\ issued' = IF IsSome(r.placed) /\ r.http = 200
                         THEN Issue(Val(r.placed), r.used, "POST /place")
                         ELSE issued
            /\ narrations' = IF IsSome(r.primary)
                             THEN Narrate(narrations, "placeCall", Val(r.primary), now)
                             ELSE narrations
            /\ calls' = IF IsSome(r.placed) THEN calls + 1 ELSE calls
            /\ polled' = IF issued' = issued THEN polled ELSE None
    /\ UNCHANGED <<sweeps, seen, env, now, audioDir>>

\* GET /api/call/status/:callId, for the identifier issued last or, as
\* long as none was issued, for any identifier the client makes up (the
\* route keeps no state, so its answer to a made-up identifier does not
\* depend on the calls placed)
GetStatus ==
    /\ \E callId \in (IF IsSome(issued.id) THEN {Val(issued.id)} ELSE ProbeIds) :
       \E fetch \in (IF env.twilioClient \/ env.exotelCreds THEN FetchOutcomes ELSE NoRequest),
          providerStatus \in (IF env.twilioClient \/ env.exotelCreds
                              THEN ProviderStatuses ELSE NoRequest) :
         LET r == Route_status(env, callId, fetch, providerStatus, now)
         IN /\ resp' = [op |-> "GET /status", callId |-> callId, fetch |-> fetch,
                        r |-> r]
            /\ polled' = IF issued.id = Some(callId) /\ r.derived /\ r.http = 200
                         THEN Some([by |-> r.routedTo,
                                    status |-> Val(r.body.call_status).status,
                                    result |-> Val(r.body.call_status)])
                         ELSE polled
    /\ UNCHANGED <<narrations, sweeps, seen, env, now, audioDir, issued, calls>>

\* the next two uuidv4(): a request that reaches the synthesis draws the
\* first for the provider file name and the second for the stub file name
FreshUuid == Uuids[2 * calls + 1]
FreshStubUuid == Uuids[2 * calls + 2]

\* POST /api/call/complete
PostComplete ==
    /\ CanPlace
    /\ \E text \in Texts, voice \in VoiceIds, to \in ToNumbers :
       \E ttsOutcome \in (IF text = <<>> \/ voice = <<>> \/ to = <<>>
                          THEN NoRequest ELSE TtsChoices),
          tOutcome \in (IF text = <<>> \/ voice = <<>> \/ to = <<>>
                        THEN NoRequest ELSE TwilioChoices),
          tSid \in TwilioSids, rnd \in RandomParts :
       \E writeOk \in (IF ttsOutcome = "ok" THEN BOOLEAN ELSE {FALSE}),
          stubWriteOk \in (IF text = <<>> \/ voice = <<>> \/ to = <<>>
                           THEN {FALSE} ELSE BOOLEAN),
          leftover \in (IF text = <<>> \/ voice = <<>> \/ to = <<>>
                        THEN {FALSE} ELSE BOOLEAN) :
         LET r == Route_complete(env, text, voice, to, ttsOutcome, writeOk, stubWriteOk,
                                 leftover, FreshUuid, FreshStubUuid, tOutcome, tSid, now, rnd)
         IN /\ resp' = [op |-> "POST /complete", text |-> text, voice_id |-> voice,
                        to_number |-> to, outcome |-> tOutcome, r |-> r]
            /\ audioDir' = StoreFiles(audioDir, r.written \cup r.partial)
            /\ issued' = IF IsSome(r.placed) /\ r.http = 200
                         THEN Issue(Val(r.placed), "twilio", "POST /complete")
                         ELSE issued
            /\ narrations' = IF IsSome(r.primary)
                             THEN Narrate(narrations, "placeCallWithText", Val(r.primary), now)
                             ELSE narrations
            /\ calls' = IF r.http # 400 THEN calls + 1 ELSE calls
            /\ polled' = IF issued' = issued THEN polled ELSE None
    /\ UNCHANGED <<sweeps, seen, env, now>>

\* the longest text POST /api/voice/generate accepts
MaxTextLength == 5000

\* a text of n characters
LongText(n) == [i \in 1..n |-> "a"]

\* texts a client may send to POST /api/voice/generate
GenerateTexts == Texts \cup { LongText(MaxTextLength), LongText(MaxTextLength + 1) }

\* router.post('/generate') without the test of text.length
Route_generate_NoLengthCheck(e, text, voice, ttsOutcome, writeOk, stubWriteOk, leftover, uuid, stubUuid, nowMs) ==
    IF text = <<>> \/ voice = <<>>
    THEN [http |-> 400, body |-> [success |-> FALSE, error |-> "Missing required fields"],
          tts |-> None, written |-> {}, partial |-> {}, spoken |-> None]
    ELSE LET tts == ElevenLabs_generateSpeech(e.elevenLabsKey,
                        [text |-> text, voice_id |-> voice],
                        ttsOutcome, writeOk, stubWriteOk, leftover, uuid, stubUuid, nowMs)
         IN IF tts.response.success
            THEN [http |-> 200,
                  body |-> [success |-> TRUE, audio_url |-> tts.response.audio_url,
                            filename |-> tts.response.filename],
                  tts |-> Some(tts.response), written |-> tts.written,
                  partial |-> tts.partial, spoken |-> Some(Len(text))]
            ELSE [http |-> 500,
                  body |-> [success |-> FALSE, error |-> Val(tts.response.error)],
                  tts |-> Some(tts.response), written |-> tts.written,
                  partial |-> tts.partial, spoken |-> Some(Len(text))]

\* router.post('/generate'): the response, the synthesis result it was
\* built from (none when generateSpeech was not called) and the files created
Route_generate(e, text, voice, ttsOutcome, writeOk, stubWriteOk, leftover, uuid, stubUuid, nowMs) ==
    IF text = <<>> \/ voice = <<>>
    THEN [http |-> 400, body |-> [success |-> FALSE, error |-> "Missing required fields"],
          tts |-> None, written |-> {}, partial |-> {}, spoken |-> None]
    ELSE IF Len(text) > MaxTextLength
    THEN [http |-> 400, body |-> [success |-> FALSE, error |-> "Text too long"],
          tts |-> None, written |-> {}, partial |-> {}, spoken |-> None]
    ELSE LET tts == ElevenLabs_generateSpeech(e.elevenLabsKey,
                        [text |-> text, voice_id |-> voice],
                        ttsOutcome, writeOk, stubWriteOk, leftover, uuid, stubUuid, nowMs)
         IN IF tts.response.success
            THEN [http |-> 200,
                  body |-> [success |-> TRUE, audio_url |-> tts.response.audio_url,
                            filename |-> tts.response.filename],
                  tts |-> Some(tts.response), written |-> tts.written,
                  partial |-> tts.partial, spoken |-> Some(Len(text))]
            ELSE [http |-> 500,
                  body |-> [success |-> FALSE, error |-> Val(tts.response.error)],
                  tts |-> Some(tts.response), written |-> tts.written,
                  partial |-> tts.partial, spoken |-> Some(Len(text))]

\* POST /api/voice/generate
PostGenerate ==
    /\ CanPlace
    /\ \E text \in GenerateTexts, voice \in VoiceIds :
       \E ttsOutcome \in (IF text = <<>> \/ voice = <<>> \/ Len(text) > MaxTextLength
                          THEN NoRequest ELSE TtsChoices) :
       \E writeOk \in (IF ttsOutcome = "ok" THEN BOOLEAN ELSE {FALSE}),
          stubWriteOk \in (IF text = <<>> \/ voice = <<>> \/ Len(text) > MaxTextLength
                           THEN {FALSE} ELSE BOOLEAN),
          leftover \in (IF text = <<>> \/ voice = <<>> \/ Len(text) > MaxTextLength
                        THEN {FALSE} ELSE BOOLEAN) :
         LET r == Route_generate(env, text, voice, ttsOutcome, writeOk, stubWriteOk,
                                 leftover, FreshUuid, FreshStubUuid, now)
         IN /\ resp' = [op |-> "POST /generate", textLength |-> Len(text),
                        voice_id |-> voice, outcome |-> ttsOutcome, r |-> r]
            /\ audioDir' = StoreFiles(audioDir, r.written \cup r.partial)
            /\ calls' = IF r.http # 400 THEN calls + 1 ELSE calls
    /\ UNCHANGED <<narrations, sweeps, seen, env, now, issued, polled>>

\* the text and the voice POST /api/voice/test uses when the body has none
DefaultTestText ==
    <<
       "H", "e", "l", "l", "o", "!", " ", "T", "h", "i", "s", " ",
       "i", "s", " ", "a", " ", "t", "e", "s", "t", " ", "o", "f",
       " ", "t", "h", "e", " ", "V", "o", "i", "c", "e", " ", "O",
       "v", "e", "r", " ", "A", "I", " ", "A", "g", "e", "n", "t",
       ".", " ", "T", "h", "e", " ", "s", "y", "s", "t", "e", "m",
       " ", "i", "s", " ", "w", "o", "r", "k", "i", "n", "g", " ",
       "c", "o", "r", "r", "e", "c", "t", "l", "y", "." >>
DefaultTestVoiceId == <<"m", "o", "c", "k", "-", "v", "o", "i", "c", "e", "-", "1">>

\* router.post('/test'): the response, the synthesis result inside it, the
\* files created and the length of the text handed to generateSpeech
Route_test(e, text, voice, ttsOutcome, writeOk, stubWriteOk, leftover, uuid, stubUuid, nowMs) ==
    LET testText == IF text # <<>> THEN text ELSE DefaultTestText
        testVoiceId == IF voice # <<>> THEN voice ELSE DefaultTestVoiceId
        tts == ElevenLabs_generateSpeech(e.elevenLabsKey,
                   [text |-> testText, voice_id |-> testVoiceId],
                   ttsOutcome, writeOk, stubWriteOk, leftover, uuid, stubUuid, nowMs)
    IN [http |-> 200,
        body |-> [success |-> TRUE, test |-> TRUE, result |-> tts.response],
        tts |-> Some(tts.response), written |-> tts.written,
        partial |-> tts.partial, spoken |-> Some(Len(testText))]

\* POST /api/voice/test
PostTest ==
    /\ CanPlace
    /\ \E text \in GenerateTexts, voice \in VoiceIds, ttsOutcome \in TtsChoices :
       \E writeOk \in (IF ttsOutcome = "ok" THEN BOOLEAN ELSE {FALSE}),
          stubWriteOk \in BOOLEAN, leftover \in BOOLEAN :
         LET r == Route_test(env, text, voice, ttsOutcome, writeOk, stubWriteOk,
                             leftover, FreshUuid, FreshStubUuid, now)
         IN /\ resp' = [op |-> "POST /test", textLength |-> Len(text),
                        voice_id |-> voice, outcome |-> ttsOutcome, r |-> r]
            /\ audioDir' = StoreFiles(audioDir, r.written \cup r.partial)
            /\ calls' = calls + 1
    /\ UNCHANGED <<narrations, sweeps, seen, env, now, issued, polled>>

Next ==
    \/ Tick
    \/ PostGenerate
    \/ PostTest
    \/ TwilioPlaceCall
    \/ TwilioPlaceCallWithText
    \/ ExotelPlaceCall
    \/ PostPlace
    \/ GetStatus
    \/ PostComplete

Spec == Init /\ [][Next]_vars

\* ---------------------------------------------------------------------
\* The log-only narration of simulated calls
\* ---------------------------------------------------------------------

\* an interval timer that is due fires: it writes its log line or clears
\* itself, and touches nothing else
NarrationFires ==
    /\ \E k \in DOMAIN narrations :
         /\ ~narrations[k].cleared
         /\ now >= narrations[k].due
         /\ narrations' = [narrations EXCEPT ![k] = Narration_onInterval(narrations[k])]
    /\ UNCHANGED <<env, now, audioDir, issued, calls, polled, resp, seen, sweeps>>

NextNarration ==
    \/ Tick
    \/ TwilioPlaceCall
    \/ TwilioPlaceCallWithText
    \/ NarrationFires

SpecNarration == Init /\ [][NextNarration]_vars

\* ---------------------------------------------------------------------
\* Status lookups across histories and restarts
\* ---------------------------------------------------------------------

\* identifiers a client holds from simulated placements made at time 0,
\* by this process or by one that ran before a restart
HeldIds ==
    { Val(Twilio_simulateCall([to_number |-> <<>>], 0, rnd).call_id) : rnd \in RandomParts }
    \cup { Val(Exotel_simulateCall([to_number |-> <<>>], 0, rnd).call_id) : rnd \in RandomParts }

\* the process is stopped and started again: the services are constructed
\* anew from the same environment, and nothing else is kept
Restart ==
    /\ issued # NoCall \/ calls > 0
    /\ issued' = NoCall
    /\ calls' = 0
    /\ polled' = None
    /\ resp' = [op |-> "restart"]
    /\ sweeps' = NoSweeps
    /\ narrations' = <<>>
    /\ UNCHANGED <<env, now, audioDir, seen>>

\* GET /api/call/status/:callId for an identifier the client holds
QueryStatus ==
    /\ \E callId \in HeldIds :
       \E fetch \in (IF env.twilioClient \/ env.exotelCreds THEN FetchOutcomes ELSE NoRequest),
          providerStatus \in (IF env.twilioClient \/ env.exotelCreds
                              THEN ProviderStatuses ELSE NoRequest) :
         LET r == Route_status(env, callId, fetch, providerStatus, now)
         IN /\ resp' = [op |-> "GET /status (held)", callId |-> callId, r |-> r]
            /\ seen' = IF seen = None /\ r.derived
                       THEN Some([callId |-> callId, at |-> now, history |-> issued, r |-> r])
                       ELSE seen
    /\ UNCHANGED <<narrations, sweeps, env, now, audioDir, issued, calls, polled>>

NextStatus ==
    \/ Tick
    \/ TwilioPlaceCall
    \/ ExotelPlaceCall
    \/ GetStatus
    \/ Restart
    \/ QueryStatus

SpecStatus == Init /\ [][NextStatus]_vars

\* ---------------------------------------------------------------------
\* A client polling the status of the call it placed
\* ---------------------------------------------------------------------
NextPoll ==
    \/ Tick
    \/ PostComplete
    \/ GetStatus

\* time advances, and the client's interval timer keeps asking
SpecPoll == Init /\ [][NextPoll]_vars /\ WF_vars(Tick) /\ WF_vars(GetStatus)

(* ------------------------- the audio directory ----------------------- *)
\* 60 * 60 * 1000
HourMs == 3600000

\* files the audio directory may hold when the process starts, written
\* before the origin of the modelled clock
StoredBefore ==
    { [name |-> <<"o", "1">>, mtime |-> 0 - HourMs],
      [name |-> <<"o", "2">>, mtime |-> 0 - 25 * HourMs] }

VoiceInit ==
    /\ env \in [twilioClient : {FALSE}, exotelCreds : {FALSE}, elevenLabsKey : BOOLEAN]
    /\ now = 0
    /\ audioDir \in SUBSET StoredBefore
    /\ issued = NoCall
    /\ calls = 0
    /\ polled = None
    /\ resp = Idle
    /\ seen = None
    /\ sweeps = NoSweeps
    /\ narrations = <<>>

\* a direct call of elevenLabsService.generateSpeech
GenerateSpeech ==
    /\ now <= MaxPlaceTime
    /\ calls < MaxSpeech
    /\ Cardinality(audioDir) + 2 <= MaxFiles
    /\ \E text \in Texts, voice \in VoiceIds, outcome \in TtsChoices :
       \E writeOk \in (IF outcome = "ok" THEN BOOLEAN ELSE {FALSE}),
          stubWriteOk \in BOOLEAN, leftover \in BOOLEAN :
         LET r == ElevenLabs_generateSpeech(env.elevenLabsKey,
                      [text |-> text, voice_id |-> voice], outcome, writeOk,
                      stubWriteOk, leftover, FreshUuid, FreshStubUuid, now)
         IN /\ resp' = [op |-> "generateSpeech", outcome |-> outcome,
                        writeOk |-> writeOk, stubWriteOk |-> stubWriteOk,
                        before |-> audioDir, r |-> r]
            /\ audioDir' = StoreFiles(audioDir, r.written \cup r.partial)
            /\ calls' = calls + 1
    /\ UNCHANGED <<narrations, sweeps, seen, env, now, issued, polled>>

\* cleanupOldFiles's default maxAgeHours, and the route's '|| 24'
DefaultMaxAgeHours == 24

\* what can go wrong in a sweep: nothing, readdir, or stat / remove of one file
SweepFailures(dir) ==
    {[kind |-> "none", file |-> None], [kind |-> "readdir", file |-> None]}
    \cup {[kind |-> k, file |-> Some(f)] : k \in {"stat", "remove"}, f \in dir}

\* the files readdir may list before the one whose stat or remove fails
ListedBefore(dir, failure) ==
    IF IsSome(failure.file) THEN SUBSET (dir \ {Val(failure.file)}) ELSE {{}}

\* ElevenLabsService.cleanupOldFiles: the directory after the sweep. One
\* try block holds readdir and the whole loop, so the first rejected
\* promise ends the sweep; listedBefore are the files handled before it.
ElevenLabs_cleanupOldFiles(dir, maxAgeHours, failure, listedBefore, nowMs) ==
    LET maxAge == maxAgeHours * HourMs
        old(f) == nowMs - f.mtime > maxAge
        failed == \/ failure.kind \in {"readdir", "stat"}
                  \/ failure.kind = "remove" /\ old(Val(failure.file))
        handled == IF ~failed THEN dir
                   ELSE IF failure.kind = "readdir" THEN {}
                   ELSE listedBefore
        removed == {f \in handled : old(f)}
    IN [dir |-> dir \ removed, removed |-> removed, maxAge |-> maxAge,
        failed |-> failed, threw |-> FALSE]

\* router.get('/cleanup'): parseInt(req.query.hours) || 24
Route_cleanup(dir, hours, failure, listedBefore, nowMs) ==
    LET parsed == ParseInt(hours)
        maxAgeHours == IF IsSome(parsed) /\ Val(parsed) # 0
                       THEN Val(parsed) ELSE DefaultMaxAgeHours
        sweep == ElevenLabs_cleanupOldFiles(dir, maxAgeHours, failure, listedBefore, nowMs)
    IN [http |-> IF sweep.threw THEN 500 ELSE 200,
        body |-> [success |-> ~sweep.threw],
        maxAgeHours |-> maxAgeHours, sweep |-> sweep]

\* the maxAgeHours a caller passes to cleanupOldFiles
MaxAges == { 0, 1, DefaultMaxAgeHours }
\* req.query.hours: absent, '0', '1' or not a number
HoursQueries == { None, Some(<<"0">>), Some(<<"1">>), Some(<<"x">>) }

\* a direct call of elevenLabsService.cleanupOldFiles(maxAgeHours)
CleanupOldFiles ==
    /\ now <= MaxPlaceTime
    /\ \E maxAgeHours \in MaxAges, failure \in SweepFailures(audioDir) :
       \E listedBefore \in ListedBefore(audioDir, failure) :
         LET r == ElevenLabs_cleanupOldFiles(audioDir, maxAgeHours, failure,
                                             listedBefore, now)
         IN /\ resp' = [op |-> "cleanupOldFiles", maxAgeHours |-> maxAgeHours,
                        failure |-> failure, before |-> audioDir, r |-> r]
            /\ audioDir' = r.dir
    /\ UNCHANGED <<narrations, sweeps, seen, env, now, issued, calls, polled>>

\* GET /api/voice/cleanup?hours=h
GetCleanup ==
    /\ now <= MaxPlaceTime
    /\ \E hours \in HoursQueries, failure \in SweepFailures(audioDir) :
       \E listedBefore \in ListedBefore(audioDir, failure) :
         LET r == Route_cleanup(audioDir, hours, failure, listedBefore, now)
         IN /\ resp' = [op |-> "GET /cleanup", hours |-> hours,
                        failure |-> failure, before |-> audioDir, r |-> r]
            /\ audioDir' = r.sweep.dir
    /\ UNCHANGED <<narrations, sweeps, seen, env, now, issued, calls, polled>>

NextVoice ==
    \/ Tick
    \/ GenerateSpeech
    \/ CleanupOldFiles
    \/ GetCleanup

SpecVoice == VoiceInit /\ [][NextVoice]_vars

(* ---------------------- interleaved cleanup sweeps -------------------- *)
\* a comes before b in the order readdir lists names: byte by byte, for
\* the characters that occur in the names of audio files
RECURSIVE NameLess(_, _)
NameLess(a, b) ==
    IF a = <<>> THEN b # <<>>
    ELSE IF b = <<>> THEN FALSE
    ELSE IF Head(a) = Head(b) THEN NameLess(Tail(a), Tail(b))
    ELSE LET order == << ".", "0", "1", "2", "3", "4", "5", "6", "7", "8", "9", "_",
                         "a", "b", "c", "d", "e", "f", "g", "h", "i", "j", "k", "l", "m",
                         "n", "o", "p", "q", "r", "s", "t", "u", "v", "w", "x", "y", "z" >>
             code(c) == CHOOSE i \in 1..Len(order) : order[i] = c
         IN code(Head(a)) < code(Head(b))

\* fs.readdir(audioDir): the names of the directory, in order
Readdir(dir) ==
    LET names == { f.name : f \in dir }
        n == Cardinality(names)
    IN CHOOSE l \in [1..n -> names] :
         \A i \in 1..n, j \in 1..n : i < j => NameLess(l[i], l[j])

\* now - stats.mtime.getTime() > maxAge
IsOld(nowMs, mtime, maxAge) == nowMs - mtime > maxAge

\* the sweep moves on to the next file of its list, or ends
NextFile(p) ==
    IF p.pos + 1 > Len(p.files)
    THEN [p EXCEPT !.pc = "done", !.pos = p.pos + 1]
    ELSE [p EXCEPT !.pc = "stat", !.pos = p.pos + 1]

\* cleanupOldFiles up to the first await of its loop: the list and the time
Sweep_afterReaddir(dir, maxAgeHours, nowMs) ==
    LET files == Readdir(dir)
    IN [pc |-> IF files = <<>> THEN "done" ELSE "stat", files |-> files,
        pos |-> 1, now |-> nowMs, maxAgeHours |-> maxAgeHours, logged |-> FALSE]

\* await fs.stat(filepath) and the age test: a file that is no longer
\* there rejects the promise, and the catch block ends the sweep
Sweep_afterStat(p, dir) ==
    LET here == { f \in dir : f.name = p.files[p.pos] }
    IN IF here = {} THEN [p EXCEPT !.pc = "caught"]
       ELSE IF \E f \in here : IsOld(p.now, f.mtime, p.maxAgeHours * HourMs)
       THEN [p EXCEPT !.pc = "remove"]
       ELSE NextFile(p)

\* the loop left after its first removal
Sweep_afterRemove_Stops(p) == [p EXCEPT !.pc = "done"]

\* await fs.remove(filepath) has resolved (it resolves for a missing file too)
Sweep_afterRemove(p) == NextFile(p)

SweepInit ==
    /\ env \in [twilioClient : {FALSE}, exotelCreds : {FALSE}, elevenLabsKey : {TRUE}]
    /\ now = 0
    /\ audioDir \in SUBSET (StoredBefore \cup {[name |-> <<"o", "3">>, mtime |-> 0 - 26 * HourMs]})
    /\ issued = NoCall
    /\ calls = 0
    /\ polled = None
    /\ resp = Idle
    /\ seen = None
    /\ sweeps = NoSweeps
    /\ narrations = <<>>

\* cleanupOldFiles(maxAgeHours) is called and its readdir resolves
SweepReaddir ==
    /\ now <= MaxPlaceTime
    /\ Len(sweeps.procs) < MaxSweeps
    /\ \E maxAgeHours \in (IF IsSome(sweeps.threshold)
                            THEN {Val(sweeps.threshold)} ELSE MaxAges) :
         /\ sweeps' = [sweeps EXCEPT
                         !.procs = Append(@, Sweep_afterReaddir(audioDir, maxAgeHours, now)),
                         !.expired = IF IsSome(sweeps.threshold) THEN sweeps.expired
                                     ELSE { f \in audioDir :
                                              now - f.mtime > maxAgeHours * HourMs },
                         !.threshold = Some(maxAgeHours)]
         /\ resp' = [op |-> "sweep.readdir", removed |-> {}]
    /\ UNCHANGED <<narrations, env, now, audioDir, issued, calls, polled, seen>>

\* the fs.stat of a sweep resolves or rejects
SweepStat ==
    /\ now <= MaxPlaceTime
    /\ \E i \in DOMAIN sweeps.procs :
         /\ sweeps.procs[i].pc = "stat"
         /\ sweeps' = [sweeps EXCEPT !.procs[i] = Sweep_afterStat(sweeps.procs[i], audioDir)]
         /\ resp' = [op |-> "sweep.stat", removed |-> {}]
    /\ UNCHANGED <<narrations, env, now, audioDir, issued, calls, polled, seen>>

\* the fs.remove of a sweep resolves
SweepRemove ==
    /\ now <= MaxPlaceTime
    /\ \E i \in DOMAIN sweeps.procs :
         LET p == sweeps.procs[i]
             gone == { f \in audioDir : f.name = p.files[p.pos] }
         IN /\ p.pc = "remove"
            /\ audioDir' = audioDir \ gone
            /\ sweeps' = [sweeps EXCEPT !.procs[i] = Sweep_afterRemove(p)]
            /\ resp' = [op |-> "sweep.remove", sweep |-> i, removed |-> gone]
    /\ UNCHANGED <<narrations, env, now, issued, calls, polled, seen>>

\* the catch block of a sweep has logged the error; the call returns
SweepCaught ==
    /\ now <= MaxPlaceTime
    /\ \E i \in DOMAIN sweeps.procs :
         /\ sweeps.procs[i].pc = "caught"
         /\ sweeps' = [sweeps EXCEPT !.procs[i].pc = "done",
                                      !.procs[i].logged = TRUE]
         /\ resp' = [op |-> "sweep.caught", sweep |-> i, removed |-> {}]
    /\ UNCHANGED <<narrations, env, now, audioDir, issued, calls, polled, seen>>

\* a generateSpeech call that runs while sweeps are in progress, up to the
\* moment its file is on disk (fs.writeFile has written, the call has not
\* resumed); the stub is written only after the provider path has failed
SynthesisWrites ==
    /\ now <= MaxPlaceTime
    /\ calls < MaxCalls
    /\ sweeps.pending = {}
    /\ Cardinality(audioDir) + 2 <= MaxFiles
    /\ \E text \in Texts \ {<<>>}, voice \in VoiceIds \ {<<>>}, outcome \in TtsChoices :
       \E writeOk \in (IF outcome = "ok" THEN BOOLEAN ELSE {FALSE}) :
       \E stubWriteOk \in (IF writeOk THEN {TRUE} ELSE BOOLEAN) :
         LET r == ElevenLabs_generateSpeech(env.elevenLabsKey,
                      [text |-> text, voice_id |-> voice], outcome, writeOk,
                      stubWriteOk, FALSE, FreshUuid, FreshStubUuid, now)
         IN /\ r.written # {}
            /\ resp' = [op |-> "generateSpeech (writing)", removed |-> {}]
            /\ audioDir' = StoreFiles(audioDir, r.written \cup r.partial)
            /\ sweeps' = [sweeps EXCEPT !.pending = { f.name : f \in r.written }]
            /\ calls' = calls + 1
    /\ UNCHANGED <<narrations, seen, env, now, issued, polled>>

\* the generateSpeech call resumes after its write and returns the
\* audio_url of the file it wrote
SynthesisReturns ==
    /\ now <= MaxPlaceTime
    /\ sweeps.pending # {}
    /\ resp' = [op |-> "generateSpeech", removed |-> {}, filenames |-> sweeps.pending,
                readable |-> { f.name : f \in audioDir } \cap sweeps.pending]
    /\ sweeps' = [sweeps EXCEPT !.pending = {}]
    /\ UNCHANGED <<narrations, seen, env, now, audioDir, issued, calls, polled>>

\* the clock advances while sweeps and synthesis calls can still run
SweepTick == now < MaxPlaceTime /\ Tick

\* cleanup sweeps that run at the same time
NextSweep ==
    \/ SweepTick
    \/ SweepReaddir
    \/ SweepStat
    \/ SweepRemove
    \/ SweepCaught

SpecSweep == SweepInit /\ [][NextSweep]_vars

\* a single call of cleanupOldFiles
SoleSweepReaddir == sweeps.procs = <<>> /\ SweepReaddir

\* one cleanup sweep that runs while generateSpeech calls are in progress
NextFresh ==
    \/ SweepTick
    \/ SynthesisWrites
    \/ SynthesisReturns
    \/ SoleSweepReaddir
    \/ SweepStat
    \/ SweepRemove

SpecFresh == SweepInit /\ [][NextFresh]_vars

(* ------------------ numbers and call-flow documents ------------------- *)
\* string.replace(/[cs]/g, '')
RECURSIVE StripChars(_, _)
StripChars(s, cs) ==
    IF s = <<>> THEN <<>>
    ELSE IF Head(s) \in cs THEN StripChars(Tail(s), cs)
    ELSE <<Head(s)>> \o StripChars(Tail(s), cs)

\* the characters \s matches, among those of the inputs
Whitespace == { " ", "\n", "\t" }

\* TwilioService.formatPhoneNumber
Twilio_formatPhoneNumber(phoneNumber) ==
    LET cleaned == StripChars(phoneNumber, Whitespace \cup {"-", "(", ")"})
    IN IF StartsWith(cleaned, <<"+">>) THEN cleaned
       ELSE IF Len(cleaned) = 10 /\ Head(cleaned) \in {"6", "7", "8", "9"}
       THEN <<"+", "9", "1">> \o cleaned
       ELSE IF Len(cleaned) = 11 /\ StartsWith(cleaned, <<"1">>)
       THEN <<"+">> \o cleaned
       ELSE <<"+", "1">> \o cleaned

\* string.replace(/\n/g, ' ').replace(/\s+/g, ' '): every run of
\* whitespace becomes one space
RECURSIVE CollapseSpaces(_, _)
CollapseSpaces(s, inRun) ==
    IF s = <<>> THEN <<>>
    ELSE IF Head(s) \in Whitespace
    THEN (IF inRun THEN <<>> ELSE <<" ">>) \o CollapseSpaces(Tail(s), TRUE)
    ELSE <<Head(s)>> \o CollapseSpaces(Tail(s), FALSE)

\* string.trim()
RECURSIVE TrimLeft(_)
TrimLeft(s) ==
    IF s # <<>> /\ Head(s) \in Whitespace THEN TrimLeft(Tail(s)) ELSE s
RECURSIVE TrimRight(_)
TrimRight(s) ==
    IF s # <<>> /\ s[Len(s)] \in Whitespace THEN TrimRight(SubSeq(s, 1, Len(s) - 1)) ELSE s
Trim(s) == TrimRight(TrimLeft(s))

\* an element of a call-flow document: its tag, its fixed words and the
\* value interpolated into it, if any
Node(tag, text, value) == [tag |-> tag, text |-> text, value |-> value]

\* TwilioService.generateTwiML
Twilio_generateTwiML(audioUrl) ==
    << Node("Say", "Hello! Please listen to this AI-generated message.", None),
       Node("Play", "", Some(audioUrl)),
       Node("Say", "Thank you for listening. This call will now end.", None) >>

\* TwilioService.generateSimpleTwiML
Twilio_generateSimpleTwiML(toNumber) ==
    << Node("Say", "You are receiving this call on ${toNumber}", Some(toNumber)) >>

\* TwilioService.generateCustomTwiML
Twilio_generateCustomTwiML(text) ==
    LET cleanText == Trim(CollapseSpaces(StripChars(text, {"<", ">", "&"}), FALSE))
    IN << Node("Say", "Here is your message: ${cleanText}.", Some(cleanText)) >>

\* ExotelService.generateCallFlowXML
Exotel_generateCallFlowXML(audioUrl) ==
    << Node("Say", "Hello! I will now play your AI generated message.", None),
       Node("Pause", "", None),
       Node("Play", "", Some(audioUrl)),
       Node("Say", "Thank you for using Voice Over AI Agent. Goodbye!", None) >>

\* the escapes the inputs use
PercentCodes == { <<"3", "C">>, <<"3", "E">>, <<"2", "6">>, <<"2", "0">>, <<"2", "F">> }
PercentChar(code) ==
    CASE code = <<"3", "C">> -> "<"
      [] code = <<"3", "E">> -> ">"
      [] code = <<"2", "6">> -> "&"
      [] code = <<"2", "0">> -> " "
      [] code = <<"2", "F">> -> "/"

\* decodeURIComponent(s); '%' not followed by an escape throws URIError
RECURSIVE DecodeURIComponent(_)
DecodeURIComponent(s) ==
    IF s = <<>> THEN [threw |-> FALSE, value |-> <<>>]
    ELSE IF Head(s) # "%"
    THEN LET rest == DecodeURIComponent(Tail(s))
         IN [threw |-> rest.threw, value |-> <<Head(s)>> \o rest.value]
    ELSE IF Len(s) >= 3 /\ SubSeq(s, 2, 3) \in PercentCodes
    THEN LET rest == DecodeURIComponent(SubSeq(s, 4, Len(s)))
         IN [threw |-> rest.threw,
             value |-> <<PercentChar(SubSeq(s, 2, 3))>> \o rest.value]
    ELSE [threw |-> TRUE, value |-> <<>>]

\* router.get('/flow'); audio is req.query.audio
Route_flow(audio) ==
    IF ~IsSome(audio) \/ Val(audio) = <<>>
    THEN [http |-> 400, doc |-> << Node("Say", "Error: No audio URL provided.", None) >>]
    ELSE [http |-> 200, doc |-> Exotel_generateCallFlowXML(Val(audio))]

\* router.get('/twiml'); audio is req.query.audio
Route_twiml(audio) ==
    IF ~IsSome(audio) \/ Val(audio) = <<>>
    THEN [http |-> 400, doc |-> << Node("Say", "Error: No audio URL provided.", None) >>]
    ELSE LET audioUrl == DecodeURIComponent(Val(audio))
         IN IF audioUrl.threw
            THEN [http |-> 500, doc |-> << Node("Say", "Error generating call content.", None) >>]
            ELSE [http |-> 200, doc |-> Twilio_generateTwiML(audioUrl.value)]

\* TwilioService.placeCall with a client: what it passes to calls.create
Twilio_createParams(request) ==
    [twiml |-> Twilio_generateSimpleTwiML(request.to_number),
     to |-> Twilio_formatPhoneNumber(request.to_number)]

\* TwilioService.placeCallWithText with a client: what it passes to calls.create
Twilio_createParamsWithText(text, to_number) ==
    [twiml |-> Twilio_generateCustomTwiML(text),
     to |-> Twilio_formatPhoneNumber(to_number)]

\* numbers written the ways a client writes them
PhoneBodies ==
    { <<"9", "8", "7", "6", "5", "4", "3", "2", "1", "0">>,
      <<"2", "0", "2", "5", "5", "5", "0", "1", "2", "3">>,
      <<"9", "8", "7", "6", "5", " ", "4", "3", "2", "1", "0">>,
      <<"(", "2", "0", "2", ")", " ", "5", "5", "5", "-", "0", "1", "2", "3">>,
      <<"6", "5", "1", "2", "3", "4", "5", "6", "7", "8">>,
      <<"1", "2", "0", "2", "5", "5", "5", "0", "1", "2", "3">>,
      <<"1", "2", "3">> }
PhonePrefixes ==
    { <<>>,
      <<"+">>,
      <<"+", "9", "1">>,
      <<"+", "1">>,
      <<"0">>,
      <<" ">>,
      <<"+", "+">> }
PhoneInputs == { a \o b : a \in PhonePrefixes, b \in PhoneBodies }

\* req.query.audio of GET /api/call/flow and GET /api/call/twiml:
\* absent, empty or a string
QueryAudios ==
    { None, Some(<<>>),
      Some(<<"/", "a", "u", "d", "i", "o", "/", "a">>),
      Some(<<"/", "a", "u", "d", "i", "o", "/", "a", "&", "b", "=", "<", "c", ">">>),
      Some(<<"%", "2", "F", "a", "u", "d", "i", "o", "%", "2", "F", "a">>),
      Some(<<"%", "3", "C", "b", "%", "3", "E">>),
      Some(<<"5", "0", "%">>) }

\* non-empty texts a client may send to POST /api/call/complete
SpokenTexts ==
    { <<"H", "i">>,
      <<"H", "i", " ", "<", "b", ">", "y", "o", "u", "<", "/", "b", ">", " ", "&", " ", "m", "e">>,
      <<"a", "\n", " ", "b">>,
      <<"<", ">">>,
      <<" ">> }

\* formatPhoneNumber of either adapter, applied once and twice
FormatPhoneNumber ==
    /\ \E x \in PhoneInputs :
         resp' = [op |-> "formatPhoneNumber", input |-> x,
                  twilio |-> Twilio_formatPhoneNumber(x),
                  twilioTwice |-> Twilio_formatPhoneNumber(Twilio_formatPhoneNumber(x)),
                  exotel |-> Exotel_formatPhoneNumber(x),
                  exotelTwice |-> Exotel_formatPhoneNumber(Exotel_formatPhoneNumber(x))]
    /\ UNCHANGED <<narrations, sweeps, seen, env, now, audioDir, issued, calls, polled>>

\* GET /api/call/flow?audio=...
GetFlow ==
    /\ \E audio \in QueryAudios :
         resp' = [op |-> "GET /flow", audio |-> audio, r |-> Route_flow(audio)]
    /\ UNCHANGED <<narrations, sweeps, seen, env, now, audioDir, issued, calls, polled>>

\* GET /api/call/twiml?audio=...
GetTwiml ==
    /\ \E audio \in QueryAudios :
         resp' = [op |-> "GET /twiml", audio |-> audio, r |-> Route_twiml(audio)]
    /\ UNCHANGED <<narrations, sweeps, seen, env, now, audioDir, issued, calls, polled>>

\* twilioService.placeCall with a client, up to the provider request
TwilioCreate ==
    /\ env.twilioClient
    /\ \E to \in PhoneInputs, audio \in AudioUrls \ {<<>>} :
         LET params == Twilio_createParams([to_number |-> to, audio_url |-> audio])
         IN resp' = [op |-> "twilio.calls.create", to_number |-> to,
                     r |-> [http |-> 200, doc |-> params.twiml], to |-> params.to]
    /\ UNCHANGED <<narrations, sweeps, seen, env, now, audioDir, issued, calls, polled>>

\* twilioService.placeCallWithText with a client, up to the provider request
TwilioCreateWithText ==
    /\ env.twilioClient
    /\ \E text \in SpokenTexts, to \in ToNumbers \ {<<>>} :
         LET params == Twilio_createParamsWithText(text, to)
         IN resp' = [op |-> "twilio.calls.create (text)", text |-> text,
                     r |-> [http |-> 200, doc |-> params.twiml], to |-> params.to]
    /\ UNCHANGED <<narrations, sweeps, seen, env, now, audioDir, issued, calls, polled>>

(* --------------- voice catalog and account verification -------------- *)
MockVoicePrefix == <<"m", "o", "c", "k", "-", "v", "o", "i", "c", "e", "-">>

\* a Voice; fields the source object lacks are absent
Voice(voice_id, name) == [voice_id |-> voice_id, name |-> name]

\* ElevenLabsService.getMockVoices
ElevenLabs_getMockVoices ==
    << Voice(Some(MockVoicePrefix \o <<"1">>), Some("Rachel (Demo)")),
       Voice(Some(MockVoicePrefix \o <<"2">>), Some("Adam (Demo)")),
       Voice(Some(MockVoicePrefix \o <<"3">>), Some("Domi (Demo)")),
       Voice(Some(MockVoicePrefix \o <<"4">>), Some("Fin (Demo)")) >>

\* what the provider's GET /voices may carry as response.data:
\* a catalog, an empty catalog, null, an object without 'voices', 'voices'
\* that is not an array, an array holding null, an array of objects
\* without the voice fields
VoicesBodies == { "catalog", "empty", "null", "no_voices", "not_array",
                  "null_entry", "bare_entries" }

\* response.data.voices.map(...): the mapped entries, or a TypeError
MapVoices(body) ==
    IF body = "catalog"
    THEN [threw |-> FALSE,
          voices |-> << Voice(Some(<<"2", "1", "m", "0">>), Some("Rachel")),
                        Voice(Some(<<"p", "N", "I", "n">>), Some("Adam")) >>]
    ELSE IF body = "empty" THEN [threw |-> FALSE, voices |-> <<>>]
    ELSE IF body = "bare_entries"
    THEN [threw |-> FALSE, voices |-> << Voice(None, None) >>]
    ELSE [threw |-> TRUE, voices |-> <<>>]

\* getVoices without its catch block
ElevenLabs_getVoices_Propagates(apiKey, outcome, body) ==
    IF ~apiKey THEN [threw |-> TRUE, voices |-> <<>>, sent |-> FALSE]
    ELSE IF outcome # "ok" THEN [threw |-> TRUE, voices |-> <<>>, sent |-> TRUE]
    ELSE [threw |-> MapVoices(body).threw, voices |-> MapVoices(body).voices,
          sent |-> TRUE]

\* ElevenLabsService.getVoices
ElevenLabs_getVoices(apiKey, outcome, body) ==
    IF ~apiKey
    THEN [threw |-> FALSE, voices |-> ElevenLabs_getMockVoices, sent |-> FALSE]
    ELSE IF outcome # "ok"
    THEN [threw |-> FALSE, voices |-> ElevenLabs_getMockVoices, sent |-> TRUE]
    ELSE IF MapVoices(body).threw
    THEN [threw |-> FALSE, voices |-> ElevenLabs_getMockVoices, sent |-> TRUE]
    ELSE [threw |-> FALSE, voices |-> MapVoices(body).voices, sent |-> TRUE]

\* router.get('/voices')
Route_voices(e, outcome, body) ==
    LET got == ElevenLabs_getVoices(e.elevenLabsKey, outcome, body)
    IN IF got.threw
       THEN [http |-> 500, body |-> [success |-> FALSE, voices |-> <<>>, count |-> 0],
             got |-> got]
       ELSE [http |-> 200,
             body |-> [success |-> TRUE, voices |-> got.voices,
                       count |-> Len(got.voices)],
             got |-> got]

\* GET /api/voice/voices
GetVoices ==
    /\ \E outcome \in TtsChoices :
       \E body \in (IF outcome = "ok" THEN VoicesBodies ELSE {"none"}) :
         resp' = [op |-> "GET /voices", outcome |-> outcome, data |-> body,
                  r |-> Route_voices(env, outcome, body)]
    /\ UNCHANGED <<narrations, sweeps, seen, env, now, audioDir, issued, calls, polled>>

\* the three credential fields of the secondary adapter, as the
\* constructor read them: all present exactly when the adapter is configured
ExotelFields ==
    { f \in [apiKey : BOOLEAN, apiToken : BOOLEAN, accountSid : BOOLEAN] :
        env.exotelCreds <=> (f.apiKey /\ f.apiToken /\ f.accountSid) }

\* verifyAccount answering valid without the authenticated read
Exotel_verifyAccount_NoRead(f, outcome) ==
    IF ~f.apiKey \/ ~f.apiToken \/ ~f.accountSid
    THEN [threw |-> FALSE, valid |-> FALSE, sent |-> FALSE,
          message |-> <<"Exotel", "credentials", "not", "configured.",
                        "Using", "simulation", "mode.">>]
    ELSE [threw |-> FALSE, valid |-> TRUE, sent |-> FALSE,
          message |-> <<"Exotel", "account", "verified", "successfully">>]

\* ExotelService.verifyAccount; the message is the sequence of its words
Exotel_verifyAccount(f, outcome) ==
    IF ~f.apiKey \/ ~f.apiToken \/ ~f.accountSid
    THEN [threw |-> FALSE, valid |-> FALSE, sent |-> FALSE,
          message |-> <<"Exotel", "credentials", "not", "configured.",
                        "Using", "simulation", "mode.">>]
    ELSE IF outcome = "ok"
    THEN [threw |-> FALSE, valid |-> TRUE, sent |-> TRUE,
          message |-> <<"Exotel", "account", "verified", "successfully">>]
    ELSE [threw |-> FALSE, valid |-> FALSE, sent |-> TRUE,
          message |-> <<"Exotel", "account", "verification", "failed.",
                        "Using", "simulation", "mode.">>]

\* a call of exotelService.verifyAccount
VerifyAccount ==
    /\ \E f \in ExotelFields, outcome \in ExotelChoices :
         resp' = [op |-> "exotel.verifyAccount", fields |-> f, outcome |-> outcome,
                  r |-> Exotel_verifyAccount(f, outcome)]
    /\ UNCHANGED <<narrations, sweeps, seen, env, now, audioDir, issued, calls, polled>>

\* identifiers an adapter result may carry: provider SIDs, simulated
\* identifiers of both adapters, near misses of the prefixes, and none
ResultCallIds ==
    { None, Some(<<"C">>), Some(<<"c", "a", "1">>), Some(SimPrefix \o <<"t", "w", "_", "0">>) }
    \cup { Some(sid) : sid \in TwilioSids \cup ExotelSids }
    \cup { Twilio_simulateCall([to_number |-> <<>>], t, rnd).call_id :
              t \in {0, UnitMs}, rnd \in RandomParts }
    \cup { Exotel_simulateCall([to_number |-> <<>>], t, rnd).call_id :
              t \in {0, UnitMs}, rnd \in RandomParts }

\* the provider attribution of router.post('/place'), for the result of
\* either adapter
AttributeProvider ==
    /\ \E call_id \in ResultCallIds, ran \in {"twilio", "exotel"} :
         resp' = [op |-> "provider", call_id |-> call_id, ran |-> ran,
                  provider |-> ProviderOf(call_id)]
    /\ UNCHANGED <<narrations, sweeps, seen, env, now, audioDir, issued, calls, polled>>

\* getSimulatedCallStatus of either adapter, for an identifier the adapter
\* made at time 'created' and a lookup 'elapsed' milliseconds later, at a
\* threshold and one millisecond to either side of it
DeriveStatus ==
    /\ LET InstantsAround(thresholds) == UNION { { t - 1, t, t + 1 } : t \in thresholds }
       IN \E created \in { 0, UnitMs }, rnd \in RandomParts :
         \/ \E elapsed \in InstantsAround({ TwilioRingingAfter, TwilioInProgressAfter,
                                             TwilioCompletedAfter }) :
               LET id == Val(Twilio_simulateCall([to_number |-> <<>>], created, rnd).call_id)
               IN resp' = [op |-> "getSimulatedCallStatus", adapter |-> "twilio",
                           elapsed |-> elapsed,
                           answer |-> Twilio_getSimulatedCallStatus(id, created + elapsed)]
         \/ \E elapsed \in InstantsAround({ ExotelRingingAfter, ExotelAnsweredAfter,
                                             ExotelInProgressAfter, ExotelCompletedAfter }) :
               LET id == Val(Exotel_simulateCall([to_number |-> <<>>], created, rnd).call_id)
               IN resp' = [op |-> "getSimulatedCallStatus", adapter |-> "exotel",
                           elapsed |-> elapsed,
                           answer |-> Exotel_getSimulatedCallStatus(id, created + elapsed).value]
    /\ UNCHANGED <<narrations, sweeps, seen, env, now, audioDir, issued, calls, polled>>

NextDocs ==
    \/ FormatPhoneNumber
    \/ AttributeProvider
    \/ GetVoices
    \/ VerifyAccount
    \/ GetFlow
    \/ GetTwiml
    \/ TwilioCreate
    \/ TwilioCreateWithText
    \/ DeriveStatus

SpecDocs == Init /\ [][NextDocs]_vars

(* ------------------------------ properties ---------------------------- *)
PlacementOps == { "twilio.placeCall", "twilio.placeCallWithText", "exotel.placeCall" }

\* s begins with p, character by character
HasPrefix(s, p) == Len(s) >= Len(p) /\ \A i \in 1..Len(p) : s[i] = p[i]

\* C1: whatever the credentials and whatever the provider request does,
\* placeCallWithText, placeCall and the secondary placeCall return
\* success = true and do not throw, and a failed provider request ends in
\* the simulated path.
C1_PlacementNeverFails ==
    resp.op \in PlacementOps =>
        /\ resp.placed.result.success = TRUE
        /\ ~resp.placed.threw
        /\ (resp.outcome \notin {"ok", "none"} => resp.placed.path = "simulated")

C1_Witness ==
    /\ resp.op = "twilio.placeCallWithText"
    /\ env.twilioClient
    /\ resp.outcome = "auth_failure"
    /\ resp.placed.result.success
    /\ resp.placed.path = "simulated"

\* C2: a status query for the identifier a placement returned is routed to
\* the adapter that produced the identifier.
C2_StatusRoutedToProducer ==
    (resp.op = "GET /status" /\ issued.id = Some(resp.callId)) =>
        resp.r.routedTo = issued.producer

\* C3: the status route consults the primary adapter exactly for the
\* identifiers that begin with 'CA' or 'sim_twilio_', and the secondary
\* adapter for all others.
C3_RoutedByPrefix ==
    resp.op = "GET /status" =>
        IF HasPrefix(resp.callId, <<"C", "A">>)
           \/ HasPrefix(resp.callId, <<"s", "i", "m", "_", "t", "w", "i", "l", "i", "o", "_">>)
        THEN resp.r.routedTo = "twilio"
        ELSE resp.r.routedTo = "exotel"

C3_Witness ==
    /\ resp.op = "GET /status"
    /\ issued.id = Some(resp.callId)
    /\ HasPrefix(resp.callId, SimTwilioPrefix)
    /\ resp.r.routedTo = "twilio"

\* the position of a status in the ordered stage list of an adapter
StageRank(by, status) ==
    IF by = "twilio"
    THEN CASE status = "queued" -> 1 [] status = "ringing" -> 2
           [] status = "in-progress" -> 3 [] status = "completed" -> 4
    ELSE CASE status = "initiated" -> 1 [] status = "ringing" -> 2
           [] status = "answered" -> 3 [] status = "in-progress" -> 4
           [] status = "completed" -> 5

\* C5: between two status queries for the same simulated identifier the
\* derived status never moves backwards in the adapter's stage list, and
\* 'completed' stays 'completed'.
C5_StatusMonotonic ==
    [][ (IsSome(polled) /\ IsSome(polled') /\ issued' = issued) =>
          /\ StageRank(Val(polled').by, Val(polled').status)
               >= StageRank(Val(polled).by, Val(polled).status)
          /\ (Val(polled).status = "completed" => Val(polled').status = "completed") ]_vars

C5_Witness ==
    /\ resp.op = "GET /status"
    /\ issued.id = Some(resp.callId)
    /\ issued.at = MaxPlaceTime
    /\ IsSome(polled)
    /\ Val(polled).by = "exotel"
    /\ Val(polled).status = "completed"
    /\ now = MaxTime

\* the simulated identifiers of the primary adapter whose creation time is
\* known: the literal sim_twilio_0_x, and the identifier issued last
PrimarySimIds ==
    { [id |-> SimTwilioPrefix \o <<"0", "_", "x">>, t |-> 0] }
    \cup (IF IsSome(issued.id) /\ issued.path = "simulated"
             /\ HasPrefix(Val(issued.id), SimTwilioPrefix)
          THEN { [id |-> Val(issued.id), t |-> issued.at] } ELSE {})

\* C6: with the primary provider unconfigured, GET /api/call/status for
\* sim_twilio_<t>_<r> answers 'queued' below 2 s of elapsed time, 'ringing'
\* between 2 s and 6 s, 'in-progress' between 6 s and 8 s, 'completed' above
\* 8 s, and carries a duration (the whole elapsed seconds) exactly when the
\* status is 'completed'.
C6_PrimarySimulatedStatus ==
    (resp.op = "GET /status" /\ ~env.twilioClient) =>
        \A c \in PrimarySimIds : resp.callId = c.id =>
            LET e == now - c.t
                st == resp.r.body.call_status
            IN /\ resp.r.http = 200
               /\ IsSome(st)
               /\ (e < 2000 => Val(st).status = "queued")
               /\ (e > 2000 /\ e < 6000 => Val(st).status = "ringing")
               /\ (e > 6000 /\ e < 8000 => Val(st).status = "in-progress")
               /\ (e > 8000 => Val(st).status = "completed")
               /\ (IsSome(Val(st).duration) <=> Val(st).status = "completed")
               /\ (Val(st).status = "completed" => Val(st).duration = Some(e \div 1000))

C6_Witness ==
    /\ resp.op = "GET /status"
    /\ ~env.twilioClient
    /\ issued.producer = "twilio"
    /\ issued.at > 0
    /\ \E c \in PrimarySimIds : c.id = resp.callId /\ c.t = issued.at
    /\ Val(resp.r.body.call_status).status = "completed"
    /\ Val(resp.r.body.call_status).duration = Some(8)

\* the simulated identifiers sim_<t>_<r> whose creation time is known
SecondarySimIds ==
    IF IsSome(issued.id) /\ issued.path = "simulated"
       /\ HasPrefix(Val(issued.id), SimPrefix)
       /\ ~HasPrefix(Val(issued.id), SimTwilioPrefix)
    THEN { [id |-> Val(issued.id), t |-> issued.at] } ELSE {}

\* C7: with the secondary provider unconfigured, the status of
\* sim_<t>_<r> is 'initiated' below 1 s of elapsed time, 'ringing' between
\* 1 s and 3 s, 'answered' between 3 s and 5 s, 'in-progress' between 5 s
\* and 15 s and 'completed' above 15 s.
C7_SecondarySimulatedStatus ==
    (resp.op = "GET /status" /\ ~env.exotelCreds) =>
        \A c \in SecondarySimIds : resp.callId = c.id =>
            LET e == now - c.t
                st == resp.r.body.call_status
            IN /\ resp.r.http = 200
               /\ IsSome(st)
               /\ (e < 1000 => Val(st).status = "initiated")
               /\ (e > 1000 /\ e < 3000 => Val(st).status = "ringing")
               /\ (e > 3000 /\ e < 5000 => Val(st).status = "answered")
               /\ (e > 5000 /\ e < 15000 => Val(st).status = "in-progress")
               /\ (e > 15000 => Val(st).status = "completed")

C7_Witness ==
    /\ resp.op = "GET /status"
    /\ ~env.exotelCreds
    /\ issued.producer = "exotel"
    /\ \E c \in SecondarySimIds : c.id = resp.callId
    /\ now - issued.at > 3000
    /\ now - issued.at < 5000
    /\ Val(resp.r.body.call_status).status = "answered"

\* C8: a placement result produced by the simulated path carries
\* simulation = true, for placeCallWithText, placeCall and the secondary
\* placeCall.
C8_SimulatedResultIsFlagged ==
    (resp.op \in PlacementOps /\ resp.placed.path = "simulated") =>
        resp.placed.result.simulation = Some(TRUE)

\* C9: a simulated identifier of the primary adapter is
\* sim_twilio_<creation time>_<random>, one of the secondary adapter is
\* sim_<creation time>_<random>, and the two differ by prefix.
C9_SimulatedIdFormat ==
    (resp.op \in PlacementOps /\ resp.placed.path = "simulated") =>
        LET id == resp.placed.result.call_id
        IN /\ IsSome(id)
           /\ IF resp.op = "exotel.placeCall"
              THEN /\ \E r \in RandomParts :
                        Val(id) = SimPrefix \o ToDigits(now) \o <<"_">> \o r
                   /\ ~HasPrefix(Val(id), SimTwilioPrefix)
              ELSE \E r \in RandomParts :
                        Val(id) = SimTwilioPrefix \o ToDigits(now) \o <<"_">> \o r

\* POST /api/call/complete with all three fields, no credential configured
CompleteUnconfigured ==
    /\ resp.op = "POST /complete"
    /\ ~env.twilioClient /\ ~env.exotelCreds /\ ~env.elevenLabsKey
    /\ resp.text # <<>> /\ resp.voice_id # <<>> /\ resp.to_number # <<>>

CompleteSimulatedOk ==
    /\ resp.r.http = 200
    /\ resp.r.body.success = TRUE
    /\ IsSome(resp.r.body.audio_url)
    /\ HasPrefix(Val(resp.r.body.audio_url), <<"/", "a", "u", "d", "i", "o", "/">>)
    /\ IsSome(resp.r.body.call_id)
    /\ HasPrefix(Val(resp.r.body.call_id), <<"s", "i", "m", "_">>)
    /\ resp.r.body.simulation = TRUE

\* C10 as stated: with no credentials, POST /api/call/complete with
\* non-empty text, voice_id and to_number returns success:true, an
\* audio_url under /audio/, a call_id starting with sim_ and
\* simulation:true.
C10_CompleteAlwaysSucceeds == CompleteUnconfigured => CompleteSimulatedOk

\* C10 amended: the same, provided the stub audio file could be written;
\* when it could not, the answer is HTTP 500 with success:false and no call
\* is placed.
C10_CompleteSucceedsIfStubWritten ==
    CompleteUnconfigured =>
        IF resp.r.written # {}
        THEN CompleteSimulatedOk
        ELSE resp.r.http = 500 /\ resp.r.body.success = FALSE /\ resp.r.placed = None

C10_Witness ==
    /\ CompleteUnconfigured
    /\ resp.r.written # {}
    /\ CompleteSimulatedOk
    /\ resp.r.written \subseteq audioDir

\* C11: generateSpeech never throws; whatever the text, the voice id, the
\* credential and the provider's answer, it returns success = true with a
\* non-empty audio reference when the stub file can be written, and it
\* reports a failure (success = false with an error) only when the write
\* of the stub file failed.
C11_GenerateSpeechDegrades ==
    resp.op = "generateSpeech" =>
        /\ ~resp.r.threw
        /\ resp.stubWriteOk =>
               /\ resp.r.response.success
               /\ IsSome(resp.r.response.audio_url)
               /\ Val(resp.r.response.audio_url) # <<>>
        /\ ~resp.r.response.success =>
               /\ ~resp.stubWriteOk
               /\ IsSome(resp.r.response.error)

C11_Witness ==
    /\ resp.op = "generateSpeech"
    /\ env.elevenLabsKey
    /\ resp.outcome = "network_error"
    /\ resp.stubWriteOk
    /\ resp.r.response.success
    /\ HasPrefix(Val(resp.r.response.audio_url), AudioUrlPrefix \o MockTtsPrefix)
    /\ resp.r.written \subseteq audioDir

\* a non-empty string of decimal digits
IsDigits(s) == s # <<>> /\ \A i \in 1..Len(s) : IsDigit(s[i])

\* sim_twilio_<digits>_<r> or sim_<digits>_<r>
WellFormedSimId(callId) ==
    LET segs == Split(callId, "_")
    IN \/ Len(segs) >= 4 /\ segs[1] = <<"s", "i", "m">>
          /\ segs[2] = <<"t", "w", "i", "l", "i", "o">> /\ IsDigits(segs[3])
       \/ Len(segs) >= 3 /\ segs[1] = <<"s", "i", "m">> /\ IsDigits(segs[2])

\* the adapter the status route consults is configured and its provider
\* knows the identifier
KnownToProvider == ~resp.r.derived /\ resp.fetch = "ok"

\* C12: a status query for an identifier that is neither known to a
\* configured provider nor a well-formed simulated identifier
\* (sim_twilio_<digits>_<r>, sim_<digits>_<r>) is answered 404 without a
\* call status.
C12_UnrecognizedIdNotFound ==
    (resp.op = "GET /status" /\ ~WellFormedSimId(resp.callId) /\ ~KnownToProvider)
        => (resp.r.http = 404 /\ resp.r.body.call_status = None)

\* two successive derived answers for the issued identifier, the earlier
\* one being 'completed'
RequeryAfterCompleted ==
    /\ IsSome(polled) /\ IsSome(polled') /\ issued' = issued
    /\ Val(polled).status = "completed"

\* C13: once the derived status of an identifier is 'completed', every
\* later status query returns the same CallStatus result as the one
\* before it, for both adapters.
C13_RequerySameResult ==
    [][ RequeryAfterCompleted => Val(polled').result = Val(polled).result ]_vars

\* C13 amended: once 'completed', every later query returns the same
\* call_id, status, start_time and end_time; the duration is the number of
\* whole seconds elapsed at the time of the query and never decreases.
C13_RequerySameButDuration ==
    [][ RequeryAfterCompleted =>
          /\ Val(polled').result =
                [Val(polled).result EXCEPT !.duration = Val(polled').result.duration]
          /\ IsSome(Val(polled).result.duration)
          /\ IsSome(Val(polled').result.duration)
          /\ Val(Val(polled').result.duration) >= Val(Val(polled).result.duration) ]_vars

\* the secondary adapter's answer was 'completed' at 15.5 s and is
\* 'completed' again at 16 s
C13_Witness ==
    /\ IsSome(polled)
    /\ Val(polled).by = "exotel"
    /\ Val(polled).status = "completed"
    /\ resp.op = "GET /status"
    /\ Some(resp.callId) = issued.id
    /\ now - issued.at > ExotelCompletedAfter + UnitMs
    /\ IsSome(Val(polled).result.end_time)

\* the query string carries hours=<digits>
HoursGiven == IsSome(resp.hours) /\ IsDigits(Val(resp.hours))

\* C14: GET /api/voice/cleanup?hours=h sweeps with the threshold h and
\* answers success:true; with hours=0 no audio file is left.
C14_CleanupAppliesHours ==
    (resp.op = "GET /cleanup" /\ HoursGiven /\ ~resp.r.sweep.failed) =>
        /\ resp.r.maxAgeHours = Val(ParseInt(resp.hours))
        /\ resp.r.body.success
        /\ resp.hours = Some(<<"0">>) => audioDir = {}

\* C15: a cleanupOldFiles(maxAgeHours) that could list the directory
\* raises nothing, keeps every file that is not older than the threshold
\* and deletes every file that is, except a file whose own stat or remove
\* failed.
C15_SweepDeletesAllExpired ==
    (resp.op = "cleanupOldFiles" /\ resp.failure.kind # "readdir") =>
        /\ ~resp.r.threw
        /\ \A f \in resp.before :
             IF now - f.mtime > resp.maxAgeHours * HourMs
             THEN f \in audioDir => resp.failure.file = Some(f)
             ELSE f \in audioDir

\* the files the last generateSpeech call created, complete or not
Created == resp.r.written \cup resp.r.partial

\* no created file carries the name of a file that was there before the call
FreshNames == \A f \in Created : \A g \in resp.before : g.name # f.name

\* every file that was there before the call is still there, unchanged
ExistingUntouched == resp.before \subseteq audioDir

\* C16: every generateSpeech call creates exactly one file, under a name
\* no file of another call carries, and leaves the existing files as they
\* were.
C16_ExactlyOneFreshFile ==
    resp.op = "generateSpeech" =>
        /\ Cardinality(Created) = 1
        /\ FreshNames
        /\ ExistingUntouched

\* C16 amended: every file a generateSpeech call creates has a name no
\* file of another call carries, and the existing files are left as they
\* were; a call that succeeds has written exactly one complete file, the
\* one its result names; a call that fails has written none; a rejected
\* write may leave an incomplete file, so a call creates at most two files.
C16_FreshFilesOneOnSuccess ==
    resp.op = "generateSpeech" =>
        /\ FreshNames
        /\ ExistingUntouched
        /\ Created \subseteq audioDir
        /\ Cardinality(Created) <= 2
        /\ IF resp.r.response.success
           THEN /\ Cardinality(resp.r.written) = 1
                /\ \A f \in resp.r.written : resp.r.response.filename = Some(f.name)
           ELSE resp.r.written = {}

\* second call of the same millisecond: the provider answered, the write
\* of its audio was rejected and the stub was written instead
C16_Witness ==
    /\ resp.op = "generateSpeech"
    /\ calls = 2
    /\ resp.outcome = "ok" /\ ~resp.writeOk /\ resp.stubWriteOk
    /\ resp.r.response.success
    /\ Cardinality(resp.r.written) = 1
    /\ \E g \in resp.before : g.mtime = now /\ HasPrefix(g.name, MockTtsPrefix)
    /\ ExistingUntouched

\* '+' followed by digits only
IsFormattedNumber(x) == Len(x) >= 2 /\ Head(x) = "+" /\ IsDigits(Tail(x))

\* ten digits and nothing else
IsBareTenDigits(x) == Len(x) = 10 /\ IsDigits(x)

\* x with one country code, 91 or 1, in front
WithCountryCode(x) == { <<"+", "9", "1">> \o x, <<"+", "1">> \o x }

\* C17: for both formatters, formatting the result of a formatting
\* changes nothing, a '+'-prefixed number comes back unchanged and a bare
\* 10-digit number comes back with exactly one country code in front.
C17_FormatIdempotent ==
    resp.op = "formatPhoneNumber" =>
        /\ resp.twilioTwice = resp.twilio
        /\ resp.exotelTwice = resp.exotel
        /\ IsFormattedNumber(resp.input) =>
               resp.twilio = resp.input /\ resp.exotel = resp.input
        /\ IsBareTenDigits(resp.input) =>
               /\ resp.twilio \in WithCountryCode(resp.input)
               /\ resp.exotel \in WithCountryCode(resp.input)

\* the operations that emit a call-flow document
DocOps == { "GET /flow", "GET /twiml", "twilio.calls.create",
            "twilio.calls.create (text)" }

\* the value node n of a document embeds contains none of < > &
SafeValue(n) ==
    IsSome(n.value) =>
        \A j \in 1..Len(Val(n.value)) : Val(n.value)[j] \notin {"<", ">", "&"}

\* C18: in every call-flow document either provider variant emits, the
\* embedded user-supplied value (text, audio URL, destination number)
\* contains none of '<', '>' and '&'.
C18_EmbeddedValueIsSafe ==
    resp.op \in DocOps =>
        \A i \in 1..Len(resp.r.doc) : SafeValue(resp.r.doc[i])

\* node n has something to play or say
HasTarget(n) ==
    /\ n.tag = "Play" => IsSome(n.value)
    /\ IsSome(n.value) => Val(n.value) # <<>>
    /\ n.tag = "Say" => n.text # ""

\* the query of the last GET /flow or GET /twiml had no audio parameter
\* or an empty one
AudioMissing ==
    /\ resp.op \in {"GET /flow", "GET /twiml"}
    /\ (~IsSome(resp.audio) \/ Val(resp.audio) = <<>>)

\* C19: no emitted document has an empty Play target or an empty spoken
\* message, and a flow or twiml request without audio is answered with an
\* error document: one Say with a message, and no Play.
C19_NoEmptyTarget ==
    resp.op \in DocOps =>
        /\ \A i \in 1..Len(resp.r.doc) : HasTarget(resp.r.doc[i])
        /\ AudioMissing =>
               /\ resp.r.http = 400
               /\ Len(resp.r.doc) = 1
               /\ resp.r.doc[1].tag = "Say"
               /\ resp.r.doc[1].value = None

\* the last request fails the validation of its route
FailsValidation ==
    \/ /\ resp.op = "POST /generate"
       /\ (resp.textLength = 0 \/ resp.voice_id = <<>> \/ resp.textLength > MaxTextLength)
    \/ /\ resp.op = "POST /place"
       /\ (resp.to_number = <<>> \/ resp.audio_url = <<>>)
    \/ /\ resp.op = "POST /complete"
       /\ (resp.text = <<>> \/ resp.voice_id = <<>> \/ resp.to_number = <<>>)

\* the last request reached neither the synthesis nor an adapter
NothingInvoked ==
    /\ resp.op \in {"POST /generate", "POST /complete"} =>
          resp.r.written = {} /\ resp.r.partial = {}
    /\ resp.op = "POST /generate" => resp.r.tts = None
    /\ resp.op \in {"POST /place", "POST /complete"} => resp.r.placed = None
    /\ resp.op = "POST /place" => resp.r.attempted = <<>>

\* C20: a request that fails validation (generate without text or
\* voice_id or with more than 5000 characters, place without to_number or
\* audio_url, complete without text, voice_id or to_number) is answered
\* 400, calls neither the synthesis nor an adapter, and leaves the audio
\* directory and the calls as they were.
C20_InvalidRequestNoEffect ==
    [][ FailsValidation' =>
          /\ resp'.r.http = 400
          /\ NothingInvoked'
          /\ UNCHANGED <<narrations, sweeps, seen, audioDir, issued, calls, polled>> ]_vars

\* a text of 5001 characters sent to a configured synthesis is refused
C20_Witness ==
    /\ resp.op = "POST /generate"
    /\ env.elevenLabsKey
    /\ resp.textLength = MaxTextLength + 1
    /\ resp.voice_id # <<>>
    /\ resp.r.http = 400
    /\ audioDir = {}

\* the HTTP entry points that reach the synthesis adapter
SynthesisOps == { "POST /generate", "POST /test", "POST /complete" }

\* C21: on POST /api/voice/generate, POST /api/voice/test and POST
\* /api/call/complete, the text handed to generateSpeech is never empty
\* and never longer than 5000 characters.
C21_CallersEnforceTextLimit ==
    (resp.op \in SynthesisOps /\ IsSome(resp.r.spoken)) =>
        (Val(resp.r.spoken) >= 1 /\ Val(resp.r.spoken) <= MaxTextLength)

\* a 200 answer of one of the two placement routes
PlacementAnswered ==
    /\ resp.op \in { "POST /place", "POST /complete" }
    /\ resp.r.http = 200
    /\ IsSome(resp.r.placed)

\* the response body carries simulation: true
FlagSet(body) == "simulation" \in DOMAIN body /\ body.simulation = TRUE

\* C22: a 200 answer of POST /api/call/place or POST /api/call/complete
\* carries simulation: true exactly when the call was only simulated, and
\* not when it was originated at a provider.
C22_SimulationFlagTellsRealFromDemo ==
    PlacementAnswered =>
        (FlagSet(resp.r.body) <=> Val(resp.r.placed).path = "simulated")

\* a client asks again, at the same instant, for the identifier whose
\* time-derived status it has already seen
AskedAgain ==
    /\ resp.op = "GET /status (held)"
    /\ resp.r.derived
    /\ IsSome(seen)
    /\ Val(seen).callId = resp.callId
    /\ Val(seen).at = now

PlacementStageReached ==
    /\ resp.op \in { "POST /place", "POST /complete" }
    /\ resp.r.attempted # <<>>

\* the states a placement request went through, read off its record:
\* NEW, TRYING_PRIMARY, then TRYING_SECONDARY if the secondary was
\* attempted, then PLACED or FAILED after the answer
StatesPassed(r) ==
    <<"NEW", "TRYING_PRIMARY">>
    \o (IF Len(r.attempted) = 2 THEN <<"TRYING_SECONDARY">> ELSE <<>>)
    \o (IF r.http = 200 THEN <<"PLACED">> ELSE <<"FAILED">>)

\* the paths of NEW -> TRYING_PRIMARY -> {PLACED | TRYING_SECONDARY} -> {PLACED | FAILED}
AllowedPaths ==
    { <<"NEW", "TRYING_PRIMARY", "PLACED">>,
      <<"NEW", "TRYING_PRIMARY", "TRYING_SECONDARY", "PLACED">>,
      <<"NEW", "TRYING_PRIMARY", "TRYING_SECONDARY", "FAILED">> }

\* C24: a placement request attempts the primary adapter first and once,
\* attempts the secondary at most once and only after the primary
\* returned a failure, answers PLACED only with a successful adapter
\* result, and answers FAILED only after the secondary was tried.
C24_PlacementStateMachine ==
    PlacementStageReached =>
        LET r == resp.r
        IN /\ r.attempted \in { <<"twilio">>, <<"twilio", "exotel">> }
           /\ StatesPassed(r) \in AllowedPaths
           /\ Len(r.attempted) = 2 => ~Val(r.primary).result.success
           /\ r.http = 200 => Val(r.placed).result.success

\* POST /complete has taken a request through NEW, TRYING_PRIMARY, PLACED
\* with a call originated at the provider
C24_Witness ==
    /\ PlacementStageReached
    /\ resp.op = "POST /complete"
    /\ StatesPassed(resp.r) = <<"NEW", "TRYING_PRIMARY", "PLACED">>
    /\ Val(resp.r.primary).path = "real"

\* the provider values that name the primary provider
PrimaryProviders == { "twilio", "twilio_sim" }

\* C25: the provider a POST /api/call/place response names is the primary
\* one exactly when the returned identifier begins with 'CA' or
\* 'sim_twilio_', and the secondary one otherwise, whichever adapter
\* produced the identifier.
C25_ProviderFromPrefix ==
    resp.op = "provider" =>
        LET primaryId == /\ IsSome(resp.call_id)
                         /\ \/ HasPrefix(Val(resp.call_id), CAPrefix)
                            \/ HasPrefix(Val(resp.call_id), SimTwilioPrefix)
        IN /\ primaryId => resp.provider \in PrimaryProviders
           /\ ~primaryId => resp.provider = "exotel"

\* a simulated identifier of the primary adapter is attributed to it even
\* when the secondary adapter is recorded as the one that ran
C25_Witness ==
    /\ resp.op = "provider"
    /\ resp.ran = "exotel"
    /\ IsSome(resp.call_id)
    /\ HasPrefix(Val(resp.call_id), SimTwilioPrefix)
    /\ resp.provider = "twilio_sim"

\* the secondary adapter answered a status query for the identifier it
\* issued from elapsed time alone
ExotelDerivedAnswer ==
    /\ resp.op = "GET /status"
    /\ issued.producer = "exotel"
    /\ issued.id = Some(resp.callId)
    /\ resp.r.routedTo = "exotel"
    /\ resp.r.derived
    /\ resp.r.http = 200

\* C26: the secondary adapter's time-derived answer has, once the status
\* is 'completed', duration = whole seconds of (elapsed - 5 s),
\* start_time = creation + 5 s and end_time = creation + 15 s, however
\* long after completion it is asked; before completion it has no
\* duration and no end_time.
C26_ExotelCompletedFields ==
    ExotelDerivedAnswer =>
        LET st == Val(resp.r.body.call_status)
            elapsed == now - issued.at
        IN IF st.status = "completed"
           THEN /\ st.duration = Some((elapsed - ExotelInProgressAfter) \div 1000)
                /\ st.start_time = Some(ToISOString(issued.at + ExotelInProgressAfter))
                /\ st.end_time = Some(ToISOString(issued.at + ExotelCompletedAfter))
           ELSE /\ st.duration = None
                /\ st.end_time = None

\* a call simulated at time 0 is asked about a full second after it
\* completed
C26_Witness ==
    /\ ExotelDerivedAnswer
    /\ Val(resp.r.body.call_status).status = "completed"
    /\ issued.at = 0
    /\ now >= ExotelCompletedAfter + 2 * UnitMs
    /\ IsSome(Val(resp.r.body.call_status).duration)

\* x without spaces, dashes and parentheses
WithoutFormatting(x) == SelectSeq(x, LAMBDA c : c \notin {" ", "-", "(", ")"})

\* C27: the primary adapter's formatPhoneNumber removes spaces, dashes and
\* parentheses, keeps a number that then starts with '+', puts '+91'
\* before 10 characters starting with 6-9, '+' before 11 characters
\* starting with '1' and '+1' before anything else; the result begins
\* with exactly one '+'.
C27_TwilioNormalization ==
    resp.op = "formatPhoneNumber" =>
        LET c == WithoutFormatting(resp.input)
            out == resp.twilio
        IN /\ out = IF c # <<>> /\ c[1] = "+" THEN c
                    ELSE IF Len(c) = 10 /\ c[1] \in {"6", "7", "8", "9"}
                    THEN <<"+", "9", "1">> \o c
                    ELSE IF Len(c) = 11 /\ c[1] = "1" THEN <<"+">> \o c
                    ELSE <<"+", "1">> \o c
           /\ out # <<>> /\ out[1] = "+"
           /\ Len(out) >= 2 => out[2] # "+"

\* the number of digit characters of x
DigitCount(x) == Cardinality({ i \in 1..Len(x) : IsDigit(x[i]) })

\* the secondary adapter, with credentials, was given a number whose
\* digit count is outside 10..15
ExotelInvalidNumber ==
    /\ resp.op = "exotel.placeCall"
    /\ env.exotelCreds
    /\ (DigitCount(resp.to_number) < 10 \/ DigitCount(resp.to_number) > 15)

\* C28: with credentials configured, the secondary adapter's placeCall
\* answers a number whose digit count is outside 10..15 with a simulated
\* success: no provider request is sent, nothing is thrown and no failure
\* is returned.
C28_InvalidNumberDegrades ==
    ExotelInvalidNumber =>
        LET placed == resp.placed
        IN /\ placed.result.success
           /\ placed.result.error = None
           /\ ~placed.threw
           /\ ~placed.sent
           /\ placed.path = "simulated"
           /\ IsSome(placed.result.call_id)
           /\ HasPrefix(Val(placed.result.call_id), SimPrefix)

\* a number of 16 digits was given to the configured secondary adapter
C28_Witness ==
    /\ ExotelInvalidNumber
    /\ DigitCount(resp.to_number) > 15
    /\ resp.placed.result.success

\* the lookup could not produce a catalog from the provider: no key, a
\* failed request, or a body whose 'voices' cannot be read as a list of
\* voice objects
CatalogUnavailable ==
    \/ ~env.elevenLabsKey
    \/ resp.outcome # "ok"
    \/ resp.data \in { "null", "no_voices", "not_array", "null_entry" }

\* the ids of a list of voices, in order
VoiceIdsOf(voices) == [ i \in 1..Len(voices) |-> voices[i].voice_id ]

Mentions(message, w1, w2) ==
    \E i \in 1..(Len(message) - 1) : message[i] = w1 /\ message[i + 1] = w2

\* C30: verifyAccount never throws; with a credential field missing or
\* after a failed read it returns valid = false with a message that
\* mentions simulation mode, and it returns valid = true only after the
\* provider read succeeded.
C30_VerifyAccountNeverRaises ==
    resp.op = "exotel.verifyAccount" =>
        LET f == resp.fields
            missing == ~(f.apiKey /\ f.apiToken /\ f.accountSid)
        IN /\ ~resp.r.threw
           /\ (missing \/ resp.outcome # "ok") =>
                 /\ ~resp.r.valid
                 /\ Mentions(resp.r.message, "simulation", "mode.")
           /\ missing => ~resp.r.sent
           /\ resp.r.valid => (resp.r.sent /\ resp.outcome = "ok" /\ ~missing)

\* the read was made with all three fields and the provider refused it
C30_Witness ==
    /\ resp.op = "exotel.verifyAccount"
    /\ resp.fields.apiKey /\ resp.fields.apiToken /\ resp.fields.accountSid
    /\ resp.outcome = "auth_failure"
    /\ resp.r.sent
    /\ ~resp.r.valid

\* the identifier being asked about was issued on the simulated path by an
\* adapter that has its credentials (the provider request was raised)
AskedAboutFallbackId ==
    /\ resp.op = "GET /status"
    /\ issued.id = Some(resp.callId)
    /\ issued.path = "simulated"
    /\ \/ issued.producer = "twilio" /\ env.twilioClient
       \/ issued.producer = "exotel" /\ env.exotelCreds

\* the lifecycle statuses the two adapters derive from elapsed time
LifecycleStatuses ==
    { "queued", "initiated", "ringing", "answered", "in-progress", "completed" }

\* C31: a status query for a simulated identifier that a configured
\* adapter issued after its provider request was raised is answered 200
\* with a lifecycle status derived from elapsed time, never not-found.
C31_FallbackIdCanBeLookedUp ==
    AskedAboutFallbackId =>
        /\ resp.r.http = 200
        /\ resp.r.derived
        /\ Val(resp.r.body.call_status).status \in LifecycleStatuses

\* C32: POST /api/call/place and POST /api/call/complete never invoke the
\* secondary adapter's placeCall and never answer 500 'Failed to place
\* call', because the primary adapter never returns success = false.
C32_SecondaryNeverInvoked ==
    (resp.op \in { "POST /place", "POST /complete" } /\ IsSome(resp.r.primary)) =>
        /\ Val(resp.r.primary).result.success
        /\ resp.r.attempted = <<"twilio">>
        /\ resp.r.placed = resp.r.primary
        /\ resp.r.http = 200
        /\ resp.r.body.success

\* the primary provider refused the request of POST /api/call/place and the
\* route still answered from the primary adapter's result
C32_Witness ==
    /\ resp.op = "POST /place"
    /\ env.twilioClient
    /\ resp.outcome \in { "auth_failure", "invalid_number", "network_error" }
    /\ IsSome(resp.r.primary)
    /\ resp.r.attempted = <<"twilio">>
    /\ resp.r.http = 200

\* POST /api/call/complete has returned a simulated identifier
CompleteReturnedSimulatedId ==
    /\ issued.via = "POST /complete"
    /\ issued.path = "simulated"
    /\ IsSome(issued.id)

\* C33: in every credential configuration, once POST /api/call/complete
\* has returned a simulated call_id, no status query for it is answered
\* 404 and, as time advances, a query is eventually answered 'completed'.
C33_PollingReachesCompleted ==
    /\ [](( /\ CompleteReturnedSimulatedId
            /\ resp.op = "GET /status"
            /\ issued.id = Some(resp.callId) ) => resp.r.http # 404)
    /\ (CompleteReturnedSimulatedId ~>
           ( /\ resp.op = "GET /status"
             /\ issued.id = Some(resp.callId)
             /\ resp.r.http = 200
             /\ Val(resp.r.body.call_status).status = "completed" ))

\* every sweep has been started and has returned to its caller
AllSweepsReturned ==
    /\ sweeps.procs # <<>>
    /\ \A i \in DOMAIN sweeps.procs : sweeps.procs[i].pc = "done"

\* C34: sweeps with the same threshold, interleaved at every readdir, stat
\* and remove, all return to their callers without raising, and once all
\* have returned no file is left that was older than the threshold when
\* the first of them started.
C34_ConcurrentSweepsDeleteAllExpired ==
    /\ \A i \in DOMAIN sweeps.procs :
          sweeps.procs[i].pc \in { "stat", "remove", "caught", "done" }
    /\ AllSweepsReturned => sweeps.expired \cap audioDir = {}

\* two sweeps ran over at least two expired files, one of them found a
\* file already removed by the other and ended in its catch block
C34_Witness ==
    /\ AllSweepsReturned
    /\ Cardinality(sweeps.expired) >= 2
    /\ \E i \in DOMAIN sweeps.procs : sweeps.procs[i].logged
    /\ \E i \in DOMAIN sweeps.procs : ~sweeps.procs[i].logged
    /\ sweeps.expired \cap audioDir = {}

\* C35: a sweep with a non-negative threshold never removes the file of
\* a generateSpeech call that is running at the same time, and removes
\* only files last written more than the threshold before it started, so
\* the file behind a returned audio_url is there when the call returns.
C35_SweepSparesFreshFiles ==
    /\ resp.op = "sweep.remove" =>
          \A f \in resp.removed :
             LET p == sweeps.procs[resp.sweep]
             IN p.maxAgeHours >= 0 =>
                   /\ f.name \notin sweeps.pending
                   /\ p.now - f.mtime > p.maxAgeHours * HourMs
    /\ resp.op = "generateSpeech" => resp.readable = resp.filenames

\* C36: every placement result with success = true carries a defined,
\* non-empty call_id, on the simulated and on the real paths of both
\* adapters, whatever body came with the provider's successful response.
C36_SuccessCarriesCallId ==
    (resp.op \in PlacementOps /\ resp.placed.result.success) =>
        /\ IsSome(resp.placed.result.call_id)
        /\ Val(resp.placed.result.call_id) # <<>>

\* the stage a derivation must answer at 'elapsed': the stage entered at
\* the last threshold that lies strictly below it
StageBelow(elapsed, first, entered) ==
    LET passed == { t \in DOMAIN entered : t < elapsed }
    IN IF passed = {} THEN first
       ELSE entered[CHOOSE t \in passed : \A u \in passed : u <= t]

TwilioStages ==
    (TwilioRingingAfter :> "ringing") @@ (TwilioInProgressAfter :> "in-progress")
        @@ (TwilioCompletedAfter :> "completed")

ExotelStages ==
    (ExotelRingingAfter :> "ringing") @@ (ExotelAnsweredAfter :> "answered")
        @@ (ExotelInProgressAfter :> "in-progress") @@ (ExotelCompletedAfter :> "completed")

\* C37: the comparisons of both simulated status derivations are strict:
\* at an elapsed time equal to a threshold the status is still the stage
\* before it, and at the final threshold duration and end_time are absent.
C37_ThresholdBelongsToEarlierStage ==
    resp.op = "getSimulatedCallStatus" =>
        /\ IsSome(resp.answer)
        /\ resp.adapter = "twilio" =>
              /\ Val(resp.answer).status = StageBelow(resp.elapsed, "queued", TwilioStages)
              /\ resp.elapsed <= TwilioCompletedAfter =>
                    /\ Val(resp.answer).duration = None
                    /\ Val(resp.answer).end_time = None
        /\ resp.adapter = "exotel" =>
              /\ Val(resp.answer).status = StageBelow(resp.elapsed, "initiated", ExotelStages)
              /\ resp.elapsed <= ExotelCompletedAfter =>
                    /\ Val(resp.answer).duration = None
                    /\ Val(resp.answer).end_time = None

\* a lookup exactly at the final threshold of the secondary derivation
\* was answered 'in-progress', without duration and end_time
C37_Witness ==
    /\ resp.op = "getSimulatedCallStatus"
    /\ resp.adapter = "exotel"
    /\ resp.elapsed = ExotelCompletedAfter
    /\ IsSome(resp.answer)
    /\ Val(resp.answer).status = "in-progress"
    /\ Val(resp.answer).duration = None
    /\ Val(resp.answer).end_time = None

\* the latest step was a simulated placement by the primary adapter
SimulatedPrimaryPlacement ==
    /\ resp.op \in { "twilio.placeCall", "twilio.placeCallWithText" }
    /\ resp.placed.path = "simulated"

\* C38: every simulated placement by the primary adapter, text-based as
\* well as generic, starts a narration; a narration logs queued, ringing,
\* in-progress, completed in this order, each once, and is cleared only
\* after all four.
C38_EverySimulatedPlacementIsNarrated ==
    /\ SimulatedPrimaryPlacement =>
          \E k \in DOMAIN narrations :
             narrations[k].callId = Val(resp.placed.result.call_id)
    /\ \A k \in DOMAIN narrations :
          /\ Len(narrations[k].log) <= Len(NarrationStatuses)
          /\ narrations[k].log = SubSeq(NarrationStatuses, 1, Len(narrations[k].log))
          /\ narrations[k].cleared => narrations[k].log = NarrationStatuses
====
